---- MODULE Spec2Model ----
(***************************************************************************)
(* A model of Leot.py: the authenticated session (UnivSession), the page   *)
(* monitor with its delivery ledger (PDFMonitor), the notification sender, *)
(* the registry commands and the two triggers of a check cycle (the /check *)
(* command and the daily scheduled check).                                 *)
(*                                                                         *)
(* Atomicity follows the event loop: requests' calls block, so a handler   *)
(* runs without interruption up to its next awaited channel call or sleep. *)
(***************************************************************************)
EXTENDS Naturals, Sequences, FiniteSets, TLC

VARIABLES
    modulesFile,  \* data/modules.json: the registry document
    sentFile,     \* data/sent_links.json: the ledger document
    page,         \* the portal: each module page's resource nodes
    pc,           \* each cycle's position
    mon,          \* each cycle's PDFMonitor: [modules, sent_links]
    todo,         \* each cycle's all_new_files
    pos,          \* each cycle's place in todo: [i, j]
    res,          \* each cycle's last send_file_notification: result, messages
    events,       \* each cycle's log: ledger size at load, returns, appends, sleeps
    saves,        \* each cycle's number of save_data calls
    outcome,      \* what the step just taken did, when it started a cycle
    sends,        \* history: deliveries the channel accepted, per resource
    settled,      \* history: resources delivered and recorded
    rereturned,   \* history: a settled resource was returned again
    unconfirmed,  \* history: resources recorded after a failed delivery
    overlapped,   \* history: a cycle started while another was running
    ops,          \* cycles started and registry commands handled so far
    call,         \* the session harness: last get_page / login call
    job,          \* the dispatcher harness: one delivery, invocation by invocation
    store,        \* the storage harness: the three files and the default objects
    form,         \* the registration harness: the /addmodule conversation
    visit         \* the scan harness: one call of check_module_page

vars == <<modulesFile, sentFile, page, pc, mon, todo, pos, res, events,
          saves, outcome, sends, settled, rereturned, unconfirmed, overlapped,
          ops, call, job, store, form, visit>>

coreVars == <<modulesFile, sentFile, page, pc, mon, todo, pos, res,
              events, saves, outcome, sends, settled, rereturned, unconfirmed,
              overlapped, ops>>

mainVars == <<coreVars, job, store, form, visit>>

(***************************************************************************)
(* Bounds of the model.                                                    *)
(***************************************************************************)
MaxOps == 3     \* cycles started and registry commands handled in one behaviour

(***************************************************************************)
(* HTTP responses.  A response is unreachable (requests raises) or carries *)
(* a text: the set of markers the text contains and what the body is (the  *)
(* module page with its nodes, some other page, or nothing).               *)
(***************************************************************************)
Markers == {"loginerrors", "You are not logged in", "Invalid login"}

Unreachable == [status |-> "unreachable", markers |-> {}, body |-> "empty"]

EmptyText == [status |-> "ok", markers |-> {}, body |-> "empty"]

Responses ==
    {Unreachable, EmptyText}
    \cup [status : {"ok"}, markers : SUBSET Markers, body : {"module", "other"}]

ModulePage == [status |-> "ok", markers |-> {}, body |-> "module"]

LoggedOutPage ==
    [status |-> "ok", markers |-> {"You are not logged in"}, body |-> "other"]

LoginErrorPage ==
    [status |-> "ok", markers |-> {"loginerrors"}, body |-> "other"]

WelcomePage == [status |-> "ok", markers |-> {}, body |-> "other"]

\* get_page's test of a response, line 156
Expired(r) == "loginerrors" \in r.markers \/ "You are not logged in" \in r.markers

\* login's test of the submission response, line 144
LoginFailed(r) == "loginerrors" \in r.markers \/ "Invalid login" \in r.markers

(***************************************************************************)
(* UnivSession.login: GET the form, POST it, test the markers, save the    *)
(* cookies.  The result is how the call ended ("true", "false", "raise"),  *)
(* the requests it issued and whether the cookie document was written.     *)
(***************************************************************************)
\* a login that keeps the cookies of every answered submission
LoginKeepsCookies(lp, post) ==
    IF lp.status = "unreachable"
    THEN [ret |-> "raise", trace |-> <<"get_login">>, saved |-> FALSE]
    ELSE IF post.status = "unreachable"
    THEN [ret |-> "raise", trace |-> <<"get_login", "post_login">>, saved |-> FALSE]
    ELSE [ret |-> IF LoginFailed(post) THEN "false" ELSE "true",
          trace |-> <<"get_login", "post_login">>, saved |-> TRUE]

Login(lp, post) ==
    IF lp.status = "unreachable"
    THEN [ret |-> "raise", trace |-> <<"get_login">>, saved |-> FALSE]
    ELSE IF post.status = "unreachable"
    THEN [ret |-> "raise", trace |-> <<"get_login", "post_login">>, saved |-> FALSE]
    ELSE IF LoginFailed(post)
    THEN [ret |-> "false", trace |-> <<"get_login", "post_login">>, saved |-> FALSE]
    ELSE [ret |-> "true", trace |-> <<"get_login", "post_login">>, saved |-> TRUE]

(***************************************************************************)
(* UnivSession.get_page.  r1 is the response to the first GET of the url,  *)
(* lp and post the responses login() meets, r2 the response to the second  *)
(* GET.  kind is "content" (text returned), "none" (None returned) or      *)
(* "raise"; trace lists the page fetches and the logins performed.         *)
(***************************************************************************)
\* a session that tries the login and the fetch once more
GetPageRelogTwice(r1, lp, post, r2) ==
    IF r1.status = "unreachable"
    THEN [kind |-> "raise", text |-> EmptyText, trace |-> <<"get">>]
    ELSE IF ~Expired(r1)
    THEN [kind |-> "content", text |-> r1, trace |-> <<"get">>]
    ELSE LET l == Login(lp, post) IN
         IF l.ret = "raise"
         THEN [kind |-> "raise", text |-> EmptyText, trace |-> <<"get", "login">>]
         ELSE IF l.ret = "false"
         THEN [kind |-> "none", text |-> EmptyText,
               trace |-> <<"get", "login", "login">>]
         ELSE IF r2.status = "unreachable"
         THEN [kind |-> "raise", text |-> EmptyText,
               trace |-> <<"get", "login", "get">>]
         ELSE IF Expired(r2)
         THEN [kind |-> "content", text |-> r2,
               trace |-> <<"get", "login", "get", "login", "get">>]
         ELSE [kind |-> "content", text |-> r2, trace |-> <<"get", "login", "get">>]

GetPage(r1, lp, post, r2) ==
    IF r1.status = "unreachable"
    THEN [kind |-> "raise", text |-> EmptyText, trace |-> <<"get">>]
    ELSE IF ~Expired(r1)
    THEN [kind |-> "content", text |-> r1, trace |-> <<"get">>]
    ELSE LET l == Login(lp, post) IN
         IF l.ret = "raise"
         THEN [kind |-> "raise", text |-> EmptyText, trace |-> <<"get", "login">>]
         ELSE IF l.ret = "false"
         THEN [kind |-> "none", text |-> EmptyText, trace |-> <<"get", "login">>]
         ELSE IF r2.status = "unreachable"
         THEN [kind |-> "raise", text |-> EmptyText,
               trace |-> <<"get", "login", "get">>]
         ELSE [kind |-> "content", text |-> r2, trace |-> <<"get", "login", "get">>]

\* how often event e occurs in trace t
RECURSIVE Count(_, _)
Count(t, e) ==
    IF t = <<>> THEN 0
    ELSE (IF Head(t) = e THEN 1 ELSE 0) + Count(Tail(t), e)

(***************************************************************************)
(* URLs are sequences of tokens, so that the code's tests (startswith a    *)
(* scheme, contains a host, ends with an extension, blank after strip) are *)
(* tests on tokens.                                                        *)
(***************************************************************************)
Schemes == {"http://", "https://"}

\* not url or url.strip() == ''
Blank(u) == \A i \in 1..Len(u) : u[i] = " "

\* url.startswith(('http://', 'https://'))
HasScheme(u) == u # <<>> /\ Head(u) \in Schemes

\* lines 427-428, 501-502: url = 'https://' + url when no scheme
AddScheme(u) == IF HasScheme(u) THEN u ELSE <<"https://">> \o u

Contains(u, tok) == \E i \in 1..Len(u) : u[i] = tok

\* url.lower().endswith('.pdf')
EndsWithPdf(u) == u # <<>> /\ u[Len(u)] \in {".pdf", ".PDF"}

UrlA == <<"https://", "x/a", ".pdf">>
UrlB == <<"x/b">>
UrlV == <<"https://", "x/url/view.php?id=7">>
UrlTube == <<"https://", "youtube.com", "/watch?v=1">>
UrlDrive == <<"https://", "drive.google.com", "/file/d/", "ABC123", "/view">>

(***************************************************************************)
(* What the portal answers to the classifier's GET of a resource url.      *)
(***************************************************************************)
NoAnchor == [found |-> FALSE, href |-> <<>>]

PdfResp ==
    [status |-> "ok", ctype |-> "application/pdf", url |-> UrlA, anchor |-> NoAnchor]

HtmlResp(target) ==
    [status |-> "ok", ctype |-> "text/html", url |-> UrlV,
     anchor |-> [found |-> TRUE, href |-> target]]

PlainResp ==
    [status |-> "ok", ctype |-> "text/html", url |-> UrlV, anchor |-> NoAnchor]

(***************************************************************************)
(* A node of a module page: its shape (li.activity.resource or             *)
(* li.activity.url), the link's href, the url its onclick opens, its name  *)
(* and the response its url resolves to.                                   *)
(***************************************************************************)
Node(shape, href, onclick, name, resp) ==
    [shape |-> shape, href |-> href, onclick |-> onclick, name |-> name,
     resp |-> resp]

NPdf == Node("resource", UrlA, <<>>, "a", PdfResp)
NBare == Node("resource", UrlB, <<>>, "b", PdfResp)
NVideo == Node("url", UrlV, <<>>, "v", HtmlResp(UrlTube))
NClick == Node("url", <<" ">>, UrlV, "d", HtmlResp(UrlDrive))
NNone == Node("resource", <<>>, <<>>, "n", PlainResp)
NLinkPdf == Node("url", UrlA, <<>>, "p", PdfResp)

\* the pages a module of the portal may show
PageChoices == {<<NPdf, NPdf>>, <<NBare>>, <<NVideo, NNone>>, <<NLinkPdf>>}

\* the portal: module m1 shows one of the pages, module m2 one link
Portals ==
    {[m \in {"m1", "m2"} |-> IF m = "m1" THEN p ELSE <<NClick>>] : p \in PageChoices}

\* lines 348-359, 383-394: href, else the url of window.open('...')
ExtractUrl(node) == IF Blank(node.href) THEN node.onclick ELSE node.href

Descriptor(url, name, type, final) ==
    [url |-> url, name |-> name, type |-> type, final_url |-> final]

NoFile == Descriptor(<<>>, "", "none", <<>>)

(***************************************************************************)
(* PDFMonitor.process_resource_link: NoFile stands for None.               *)
(***************************************************************************)
ProcessResourceLink(url0, name, resp) ==
    IF Blank(url0) THEN NoFile
    ELSE LET url == AddScheme(url0) IN
         IF resp.status = "unreachable" THEN NoFile
         ELSE IF resp.ctype = "application/pdf"
         THEN Descriptor(url, name, "pdf", resp.url)
         ELSE IF EndsWithPdf(resp.url)
         THEN Descriptor(url, name, "pdf", resp.url)
         ELSE IF resp.ctype = "text/html" /\ resp.anchor.found
                 /\ ~Blank(resp.anchor.href)
         THEN LET target == AddScheme(resp.anchor.href) IN
              IF Contains(target, "drive.google.com")
              THEN Descriptor(url, name, "drive", target)
              ELSE IF EndsWithPdf(target)
              THEN Descriptor(url, name, "pdf", target)
              ELSE NoFile
         ELSE NoFile

(***************************************************************************)
(* PDFMonitor.process_url_link: no Content-Type test, the first anchor of  *)
(* the response decides.                                                   *)
(***************************************************************************)
ProcessUrlLink(url0, name, resp) ==
    IF Blank(url0) THEN NoFile
    ELSE LET url == AddScheme(url0) IN
         IF resp.status = "unreachable" THEN NoFile
         ELSE IF resp.anchor.found
         THEN IF Blank(resp.anchor.href) THEN NoFile
              ELSE LET target == AddScheme(resp.anchor.href) IN
                   IF Contains(target, "drive.google.com")
                   THEN Descriptor(url, name, "drive", target)
                   ELSE IF EndsWithPdf(target)
                   THEN Descriptor(url, name, "pdf", target)
                   ELSE IF Contains(target, "youtube.com")
                           \/ Contains(target, "youtu.be")
                   THEN Descriptor(url, name, "youtube", target)
                   ELSE NoFile
         ELSE NoFile

(***************************************************************************)
(* Destinations.  A chat_id is an int, or the str "channel_thread" that    *)
(* handle_chat_id_input keeps for a topic; parts are its numbers.          *)
(***************************************************************************)
DChat == [isStr |-> FALSE, parts |-> <<100>>]
DTopic == [isStr |-> TRUE, parts |-> <<100, 2>>]
Dests == {DChat, DTopic}

\* a key that names the channel alone, whatever the topic
StrChannel(chat_id) == <<chat_id.parts[1]>>

\* str(chat_id): the ledger key
Str(chat_id) == chat_id.parts

Modules == {"m1", "m2"}
Cycles == {"manual", "scheduled"}

(***************************************************************************)
(* The registry (a dict in insertion order) and the ledger (a dict of      *)
(* dicts of lists, entries created lazily).                                *)
(***************************************************************************)
RegIds(reg) == {reg[i].id : i \in 1..Len(reg)}

RegGet(reg, m) == (CHOOSE i \in 1..Len(reg) : reg[i].id = m)

RegPut(reg, m, d) ==
    IF m \in RegIds(reg)
    THEN [i \in 1..Len(reg) |->
            IF reg[i].id = m THEN [id |-> m, chat_id |-> d] ELSE reg[i]]
    ELSE Append(reg, [id |-> m, chat_id |-> d])

RECURSIVE RegDel(_, _)
RegDel(reg, m) ==
    IF reg = <<>> THEN <<>>
    ELSE IF Head(reg).id = m THEN RegDel(Tail(reg), m)
    ELSE <<Head(reg)>> \o RegDel(Tail(reg), m)

NoDict == <<>>

Links(sl, m, k) ==
    IF m \in DOMAIN sl /\ k \in DOMAIN sl[m] THEN sl[m][k] ELSE <<>>

\* a registration that starts the list of its destination afresh
EnsureFresh(sl, m, k) ==
    LET a == IF m \in DOMAIN sl THEN sl ELSE (m :> NoDict) @@ sl
    IN  [a EXCEPT ![m] = (k :> <<>>) @@ a[m]]

\* lines 248-255, 298-301, 327-330: create the dict and the list when missing
Ensure(sl, m, k) ==
    LET a == IF m \in DOMAIN sl THEN sl ELSE (m :> NoDict) @@ sl
    IN  IF k \in DOMAIN a[m] THEN a
        ELSE [a EXCEPT ![m] = (k :> <<>>) @@ a[m]]

AppendLink(sl, m, k, url) ==
    LET a == Ensure(sl, m, k) IN [a EXCEPT ![m][k] = Append(@, url)]

\* a removal that forgets the history of every module
DropEveryModule(sl, m) == NoDict

\* line 1065: del pdf_monitor.sent_links[module_id]
DropModule(sl, m) == [x \in DOMAIN sl \ {m} |-> sl[x]]

InSeq(s, x) == \E i \in 1..Len(s) : s[i] = x

(***************************************************************************)
(* PDFMonitor.check_module_page.  got is what get_page gave, nodes the     *)
(* nodes of the module page.  All resource nodes are visited first, then   *)
(* all url nodes.                                                          *)
(***************************************************************************)
Classify(shape, url, name, resp) ==
    IF shape = "resource" THEN ProcessResourceLink(url, name, resp)
    ELSE ProcessUrlLink(url, name, resp)

RECURSIVE NewFiles(_, _, _)
NewFiles(nodes, shape, chatSent) ==
    IF nodes = <<>> THEN <<>>
    ELSE LET n == Head(nodes)
             u == ExtractUrl(n)
             rest == NewFiles(Tail(nodes), shape, chatSent)
         IN  IF n.shape # shape \/ Blank(u) \/ InSeq(chatSent, u) THEN rest
             ELSE LET f == Classify(shape, u, n.name, n.resp)
                  IN  IF f = NoFile THEN rest ELSE <<f>> \o rest

\* a check that records what it returns
RECURSIVE AppendAll(_, _, _, _)
AppendAll(sl, m, k, files) ==
    IF files = <<>> THEN sl
    ELSE AppendAll(AppendLink(sl, m, k, Head(files).url), m, k, Tail(files))

CheckModulePageRecording(m, chat_id, sl, got, nodes) ==
    IF got.kind = "none" \/ got.text.body = "empty"
    THEN [sent_links |-> sl, new_files |-> <<>>]
    ELSE LET k == Str(chat_id)
             sl2 == Ensure(sl, m, k)
             shown == IF got.text.body = "module" THEN nodes ELSE <<>>
             files == NewFiles(shown, "resource", sl2[m][k])
                      \o NewFiles(shown, "url", sl2[m][k])
         IN  [sent_links |-> AppendAll(sl2, m, k, files), new_files |-> files]

CheckModulePage(m, chat_id, sl, got, nodes) ==
    IF got.kind = "none" \/ got.text.body = "empty"
    THEN [sent_links |-> sl, new_files |-> <<>>]
    ELSE LET k == Str(chat_id)
             sl2 == Ensure(sl, m, k)
             shown == IF got.text.body = "module" THEN nodes ELSE <<>>
         IN  [sent_links |-> sl2,
              new_files |-> NewFiles(shown, "resource", sl2[m][k])
                            \o NewFiles(shown, "url", sl2[m][k])]

(***************************************************************************)
(* The first loop of PDFMonitor.check_modules, lines 272-275: every module *)
(* of the registry in order; an exception of get_page leaves the loop and  *)
(* check_modules.  fc gives, per module, the responses its get_page meets. *)
(***************************************************************************)
RECURSIVE ScanModules(_, _, _, _, _, _)
ScanModules(reg, i, sl, all, fc, pages) ==
    IF i > Len(reg)
    THEN [sent_links |-> sl, all |-> all, raised |-> FALSE, failed |-> "",
          fetched |-> Len(reg)]
    ELSE LET m == reg[i].id
             got == GetPage(fc[m].r1, fc[m].lp, fc[m].post, fc[m].r2)
         IN  IF got.kind = "raise"
             THEN [sent_links |-> sl, all |-> all, raised |-> TRUE,
                   failed |-> m, fetched |-> i]
             ELSE LET r == CheckModulePage(m, reg[i].chat_id, sl, got, pages[m])
                  IN  ScanModules(reg, i + 1, r.sent_links,
                                  IF r.new_files # <<>>
                                  THEN Append(all, [id |-> m, files |-> r.new_files])
                                  ELSE all,
                                  fc, pages)

(***************************************************************************)
(* PDFMonitor.send_file_notification, one invocation.  env is what the     *)
(* download and the channel answer: dl (download_file), s1 (the first      *)
(* send), s2 (the send_document repeated after RetryAfter), fb (the notice *)
(* sent by the handler of any other exception).  ret is "true", "false" or *)
(* "retry" (RetryAfter reached the outer handler: sleep, then recurse).    *)
(***************************************************************************)
Envs ==
    {e \in [dl : {"ok", "fail"}, s1 : {"ok", "retry", "error"},
            s2 : {"ok", "retry", "error"}, fb : {"ok", "error"}] :
        \* an answer that is never asked for is left at "ok"
        /\ e.s2 # "ok" => (e.dl = "ok" /\ e.s1 = "retry")
        /\ e.fb # "ok" => (e.s1 = "error" \/ (e.s1 = "retry" /\ e.s2 = "error"))}

\* the channel knows a chat by its number; the text "100_2" names no chat
ChannelKnows(chat) == Len(chat) = 1

\* a sender that takes RetryAfter for any other failure
SendFileNotificationNoRetry(chat_id, file_info, env) ==
    LET base == <<chat_id.parts[1]>>
        thread == IF chat_id.isStr THEN chat_id.parts[2] ELSE 0
        msg(kind) == [chat |-> base, thread |-> thread, kind |-> kind]
        sent(kind) == [ret |-> "true", msgs |-> <<msg(kind)>>]
        failed ==
            IF env.fb = "ok" /\ ChannelKnows(chat_id.parts)
            THEN [ret |-> "false",
                  msgs |-> <<[chat |-> chat_id.parts, thread |-> 0,
                              kind |-> "error_notice"]>>]
            ELSE [ret |-> "false", msgs |-> <<>>]
        text(kind) == IF env.s1 = "ok" THEN sent(kind) ELSE failed
    IN  IF file_info.type = "youtube" THEN text("video_text")
        ELSE IF file_info.type \in {"drive", "pdf"}
        THEN IF env.dl = "ok" THEN text("document") ELSE text("link_text")
        ELSE [ret |-> "true", msgs |-> <<>>]

\* a sender that lets the failure of its notice out
SendFileNotificationUnswallowed(chat_id, file_info, env) ==
    LET r == SendFileNotificationNoRetry(chat_id, file_info,
                 [env EXCEPT !.s1 = IF @ = "retry" THEN "ok" ELSE @])
    IN  IF r.ret = "false" /\ r.msgs = <<>>
        THEN [ret |-> "raise", msgs |-> <<>>]
        ELSE r

\* a sender that uploads whatever the download gave
SendFileNotificationBlind(chat_id, file_info, env) ==
    SendFileNotificationNoRetry(chat_id, file_info, [env EXCEPT !.dl = "ok"])

SendFileNotification(chat_id, file_info, env) ==
    LET base == <<chat_id.parts[1]>>
        thread == IF chat_id.isStr THEN chat_id.parts[2] ELSE 0
        msg(kind) == [chat |-> base, thread |-> thread, kind |-> kind]
        sent(kind) == [ret |-> "true", msgs |-> <<msg(kind)>>]
        retry == [ret |-> "retry", msgs |-> <<>>]
        failed ==
            IF env.fb = "ok" /\ ChannelKnows(chat_id.parts)
            THEN [ret |-> "false",
                  msgs |-> <<[chat |-> chat_id.parts, thread |-> 0,
                              kind |-> "error_notice"]>>]
            ELSE [ret |-> "false", msgs |-> <<>>]
        text(kind) ==
            CASE env.s1 = "ok" -> sent(kind)
              [] env.s1 = "retry" -> retry
              [] OTHER -> failed
    IN  IF file_info.type = "youtube" THEN text("video_text")
        ELSE IF file_info.type \in {"drive", "pdf"}
        THEN IF env.dl = "ok"
             THEN CASE env.s1 = "ok" -> sent("document")
                    [] env.s1 = "retry" ->
                         (CASE env.s2 = "ok" -> sent("document")
                            [] env.s2 = "retry" -> retry
                            [] OTHER -> failed)
                    [] OTHER -> failed
             ELSE text("link_text")
        ELSE [ret |-> "true", msgs |-> <<>>]

(***************************************************************************)
(* UnivSession.download_file.  url is the descriptor's final_url, d1 the   *)
(* response to the first GET (of the direct download url for a drive       *)
(* file), d2 the response to the GET of the first anchor of a view.php     *)
(* page.  ret is "path" or "none"; disk is what the call leaves at the     *)
(* artifact's path: "none", "full", or "partial" (the stream broke while   *)
(* the file was being written); first is the url of the first GET; opened  *)
(* tells whether the file was opened for writing.                          *)
(***************************************************************************)
UrlW == <<"https://", "x/mod/", "resource/view.php", "?id=7">>
UrlDriveOpen == <<"https://", "drive.google.com", "/open?", "id=", "ABC123">>
UrlDriveFolder == <<"https://", "drive.google.com", "/drive/folders/", "XYZ">>
UrlDriveUuid ==
    <<"https://", "drive.google.com", "/uc?", "uuid=", "7", "&", "id=", "ABC123">>

DResp(status, bytes, stream, anchor) ==
    [status |-> status, bytes |-> bytes, stream |-> stream, anchor |-> anchor]

DOk == DResp("200", "some", "ok", FALSE)
DPage == DResp("200", "some", "ok", TRUE)
DMissing == DResp("404", "some", "ok", FALSE)
DEmpty == DResp("200", "none", "ok", FALSE)
DBroken == DResp("200", "some", "broken", FALSE)
DUnreachable == DResp("unreachable", "none", "ok", FALSE)

DownloadResponses == {DOk, DPage, DMissing, DEmpty, DBroken, DUnreachable}

\* the token that follows tok in u
After(u, tok) == u[(CHOOSE i \in 1..Len(u) : u[i] = tok) + 1]

\* the pieces of a url that begin with "/", and those that hold the text
\* "id=" (the tests of lines 171 and 173 are substring tests)
Slashed == {"/file/d/", "/view", "/open?", "/uc?", "/drive/folders/", "/f"}
HoldsIdEq == {"id=", "uuid="}

First(u, toks) == CHOOSE i \in 1..Len(u) : u[i] \in toks /\ \A j \in 1..(i - 1) : u[j] \notin toks

\* str.split(sep)[1].split(stop)[0]: the text after the first piece of
\* seps, up to the next piece of seps or of stops
RECURSIVE Upto(_, _, _)
Upto(u, i, stops) ==
    IF i > Len(u) \/ u[i] \in stops THEN <<>>
    ELSE <<u[i]>> \o Upto(u, i + 1, stops)

\* lines 170-174: the id of a drive file, <<>> when the url shows none
FileId(u) ==
    IF Contains(u, "/file/d/")
    THEN Upto(u, First(u, {"/file/d/"}) + 1, Slashed)
    ELSE IF \E i \in 1..Len(u) : u[i] \in HoldsIdEq
    THEN Upto(u, First(u, HoldsIdEq) + 1, HoldsIdEq \cup {"&"})
    ELSE <<>>

NoRequest == <<>>

DownloadFile(url, d1, d2) ==
    LET drive == Contains(url, "drive.google.com")
        first == IF drive
                 THEN <<"https://", "drive.google.com", "/uc?export=download&id=">>
                      \o FileId(url)
                 ELSE url
        wrapper == Contains(url, "url/view.php") \/ Contains(url, "resource/view.php")
        hop == wrapper /\ d1.anchor
        final == IF hop THEN d2 ELSE d1
        out(ret, disk, f, gets, opened) ==
            [ret |-> ret, disk |-> disk, first |-> f, gets |-> gets,
             opened |-> opened]
    IN  IF drive /\ FileId(url) = <<>>
        THEN out("none", "none", NoRequest, 0, FALSE)
        ELSE IF d1.status = "unreachable" THEN out("none", "none", first, 1, FALSE)
        ELSE IF d1.status # "200" THEN out("none", "none", first, 1, FALSE)
        ELSE IF final.status = "unreachable"
        THEN out("none", "none", first, 2, FALSE)
        ELSE IF final.stream = "broken"
        THEN out("none", "partial", first, IF hop THEN 2 ELSE 1, TRUE)
        ELSE IF final.bytes = "some"
        THEN out("path", "full", first, IF hop THEN 2 ELSE 1, TRUE)
        ELSE out("none", "none", first, IF hop THEN 2 ELSE 1, TRUE)

\* line 582-587: download_file is not called
NoDownload ==
    [ret |-> "none", disk |-> "none", first |-> NoRequest, gets |-> 0,
     opened |-> FALSE]

\* lines 597-628: what is at the artifact's path when send_file_notification
\* leaves its document branch, before being what an earlier invocation left
ArtifactAfter(file_info, dl, before) ==
    IF file_info.type \notin {"drive", "pdf"} THEN before
    ELSE IF dl.ret = "path" THEN "none"
    ELSE IF dl.opened THEN dl.disk
    ELSE before

(***************************************************************************)
(* The three documents on disk.  A file is missing, zero-byte, malformed,  *)
(* or holds a document.  load_json returns the default object it is given  *)
(* (the module's DEFAULT_MODULES or DEFAULT_SENT_LINKS itself, not a copy) *)
(* whenever it does not parse a document; w is what the write of the       *)
(* default meets.                                                          *)
(***************************************************************************)
Missing == [state |-> "missing", data |-> <<>>]
ZeroByte == [state |-> "empty", data |-> <<>>]
Malformed == [state |-> "malformed", data |-> <<>>]
Content(data) == [state |-> "content", data |-> data]

WriteOutcomes == {"ok", "refused", "torn"}

\* open(file_path, 'w') and json.dump: the file after the attempt
WriteFile(file, data, w) ==
    CASE w = "ok" -> Content(data)
      [] w = "refused" -> file
      [] OTHER -> Malformed

LoadJson(file, default_data, w) ==
    IF file.state = "content"
    THEN [data |-> file.data, aliased |-> FALSE, file |-> file]
    ELSE IF file.state = "malformed"
    THEN [data |-> default_data, aliased |-> TRUE, file |-> file]
    ELSE [data |-> default_data, aliased |-> TRUE,
          file |-> WriteFile(file, default_data, w)]

\* save_json: the exception of a failed write is caught and printed
SaveJson(file, data, w) == [file |-> WriteFile(file, data, w), raised |-> FALSE]

\* save_cookies: no handler
SaveCookies(file, cookies, w) ==
    [file |-> WriteFile(file, cookies, w), raised |-> w # "ok"]

\* load_cookies: the cookies set on the session
LoadCookies(file) == IF file.state = "content" THEN file.data ELSE <<>>

(***************************************************************************)
(* What the portal may answer to a cycle: to the login that opens it, and  *)
(* to the get_page of each module.                                         *)
(***************************************************************************)
LoginCases ==
    {[lp |-> WelcomePage, post |-> WelcomePage],
     [lp |-> WelcomePage, post |-> LoginErrorPage],
     [lp |-> Unreachable, post |-> WelcomePage]}

FetchCase(r1, post, r2) == [r1 |-> r1, lp |-> WelcomePage, post |-> post, r2 |-> r2]

FetchCases ==
    {FetchCase(ModulePage, WelcomePage, ModulePage),
     FetchCase(LoggedOutPage, WelcomePage, ModulePage),
     FetchCase(LoggedOutPage, LoginErrorPage, ModulePage),
     FetchCase(LoggedOutPage, WelcomePage, LoggedOutPage),
     FetchCase(Unreachable, WelcomePage, ModulePage)}

IdleMon == [modules |-> <<>>, sent_links |-> NoDict]
NoPos == [i |-> 0, j |-> 0]
NoRes == [ret |-> "none", msgs |-> <<>>, dl |-> "none"]
NoRemoval == [id |-> "none", action |-> "none", said |-> "none"]
NoAdded == [id |-> "none", chat_id |-> DChat, known |-> FALSE]
NoOutcome ==
    [cycle |-> "none", removed |-> NoRemoval, added |-> NoAdded,
     login |-> "none",
     reported |-> FALSE, fetched |-> 0,
     raised |-> FALSE, shown |-> {}, lost |-> {}, manual |-> "none"]
NoJob ==
    [pc |-> "none", chat_id |-> DChat, file |-> NoFile, limits |-> 0,
     ret |-> "none", msgs |-> <<>>, calls |-> 0, waits |-> 0,
     env |-> [dl |-> "ok", s1 |-> "ok", s2 |-> "ok", fb |-> "ok"],
     d1 |-> DOk, d2 |-> DOk, dl |-> DownloadFile(UrlA, DOk, DOk),
     disk |-> "none", addressed |-> <<>>]

NoLast ==
    [op |-> "none", from |-> "none", modules |-> <<>>, links |-> NoDict,
     cookies |-> <<>>, w |-> "ok", raised |-> FALSE, ret |-> "none"]

NoStore ==
    [files |-> [modules |-> Content(<<>>), links |-> Content(NoDict),
                cookies |-> Missing],
     defaults |-> [modules |-> <<>>, links |-> NoDict],
     last |-> NoLast, n |-> 0]

NoForm ==
    [pending |-> <<>>, modules |-> <<>>, confirmed |-> <<>>, now |-> 0,
     said |-> "none", state |-> "end", waiting |-> FALSE, links |-> NoDict,
     menu |-> {}, asked |-> <<>>, by |-> "none", presses |-> 0]

NoVisit ==
    [pc |-> "none", nodes |-> <<>>, sent |-> <<>>, files |-> <<>>,
     asked |-> <<>>, visits |-> 0]

NoCall ==
    [op |-> "none", r1 |-> EmptyText, lp |-> EmptyText, post |-> EmptyText,
     r2 |-> EmptyText, kind |-> "none", text |-> EmptyText, trace |-> <<>>,
     saved |-> FALSE, before |-> Missing, cookies |-> Missing,
     hidden |-> <<>>, data |-> <<>>]

RegChat(reg, m) == reg[RegGet(reg, m)].chat_id

Bump(f, x, n) ==
    IF n = 0 THEN f
    ELSE IF x \in DOMAIN f THEN [f EXCEPT ![x] = @ + n]
    ELSE (x :> n) @@ f

InitCommon ==
    /\ pc = [c \in Cycles |-> "idle"]
    /\ mon = [c \in Cycles |-> IdleMon]
    /\ todo = [c \in Cycles |-> <<>>]
    /\ pos = [c \in Cycles |-> NoPos]
    /\ res = [c \in Cycles |-> NoRes]
    /\ events = [c \in Cycles |-> <<>>]
    /\ saves = [c \in Cycles |-> 0]
    /\ outcome = NoOutcome
    /\ sends = <<>>
    /\ settled = {}
    /\ rereturned = FALSE
    /\ unconfirmed = {}
    /\ overlapped = FALSE
    /\ ops = 0

\* The documents a process finds when it starts: none yet (load_json gives
\* the empty defaults), or those left by the registration of module m1.
Registered == <<[id |-> "m1", chat_id |-> DChat]>>

InitDocuments ==
    \/ /\ modulesFile = <<>>
       /\ sentFile = NoDict
    \/ /\ modulesFile = Registered
       /\ sentFile = Ensure(NoDict, "m1", Str(DChat))

Init ==
    /\ InitCommon
    /\ form = NoForm
    /\ visit = NoVisit
    /\ call = NoCall
    /\ job = NoJob
    /\ store = NoStore
    /\ InitDocuments
    /\ page \in Portals

(***************************************************************************)
(* A check cycle starts: check_modules_command (lines 1097-1110) or        *)
(* scheduled_check (lines 1154-1174) builds its own UnivSession and        *)
(* PDFMonitor (loading both documents), logs in, and runs the first loop   *)
(* of check_modules.  Nothing is awaited up to the first channel send.     *)
(* run_scheduled_check asks asyncio.get_event_loop() for the loop: where   *)
(* the call gives the running loop, the scheduled check is put on it with  *)
(* no test of a cycle in progress (the two handlers share no lock); where  *)
(* the call gives none (the scheduler's thread has no loop of its own),    *)
(* the trigger is lost and nothing happens.                                *)
(***************************************************************************)
ReturnedSettled(reg, all) ==
    \E x \in 1..Len(all) : \E y \in 1..Len(all[x].files) :
        <<all[x].id, Str(RegChat(reg, all[x].id)), all[x].files[y].url>> \in settled

\* get_page gave the module page itself
PageShown(f) ==
    LET got == GetPage(f.r1, f.lp, f.post, f.r2)
    IN  got.kind = "content" /\ got.text.body = "module"

\* the number of urls a ledger holds
RECURSIVE TotalLinks(_)
TotalLinks(sl) ==
    IF DOMAIN sl = {} THEN 0
    ELSE LET m == CHOOSE x \in DOMAIN sl : TRUE
             rest == [x \in DOMAIN sl \ {m} |-> sl[x]]
             RECURSIVE Sum(_)
             Sum(d) == IF DOMAIN d = {} THEN 0
                       ELSE LET k == CHOOSE x \in DOMAIN d : TRUE
                            IN  Len(d[k]) + Sum([x \in DOMAIN d \ {k} |-> d[x]])
         IN  Sum(sl[m]) + TotalLinks(rest)

\* what the /check handler, or error_handler for it, tells the administrator
\* (lines 1107, 1113, 1199-1202); the chat of the command takes the message
Reply(c, what) == IF c = "manual" THEN what ELSE "none"

LoginRejected(c, l) ==
    /\ outcome' = [cycle |-> c, removed |-> NoRemoval, added |-> NoAdded,
                   login |-> l.ret,
                   reported |-> (l.ret = "false" \/ c = "manual"),
                   fetched |-> 0, raised |-> FALSE, shown |-> {}, lost |-> {},
                   manual |-> Reply(c, IF l.ret = "false"
                                       THEN "login_failed" ELSE "error")]
    /\ UNCHANGED <<pc, mon, todo, pos, rereturned>>

\* a check whose exception reaches nobody
CheckModulesSilent(c, reg, fc, scan) ==
    /\ outcome' = [cycle |-> c, removed |-> NoRemoval, added |-> NoAdded,
                   login |-> "true", reported |-> FALSE,
                   fetched |-> scan.fetched, raised |-> scan.raised,
                   shown |-> {reg[x].id : x \in
                               {y \in 1..scan.fetched : PageShown(fc[reg[y].id])}},
                   lost |-> IF scan.raised
                            THEN {scan.all[x].id : x \in 1..Len(scan.all)}
                                 \cup {reg[x].id : x \in (scan.fetched + 1)..Len(reg)}
                            ELSE {},
                   manual |-> Reply(c, IF scan.raised THEN "none"
                                       ELSE IF scan.all = <<>> THEN "completed"
                                       ELSE "pending")]
    /\ rereturned' = (rereturned \/ ReturnedSettled(reg, scan.all))
    /\ IF scan.raised \/ scan.all = <<>>
       THEN UNCHANGED <<pc, mon, todo, pos>>
       ELSE /\ pc' = [pc EXCEPT ![c] = "send"]
            /\ mon' = [mon EXCEPT ![c] =
                  [modules |-> reg, sent_links |-> scan.sent_links]]
            /\ todo' = [todo EXCEPT ![c] = scan.all]
            /\ pos' = [pos EXCEPT ![c] = [i |-> 1, j |-> 1]]

CheckModules(c, reg, fc, scan) ==
    /\ outcome' = [cycle |-> c, removed |-> NoRemoval, added |-> NoAdded,
                   login |-> "true", reported |-> FALSE,
                   fetched |-> scan.fetched, raised |-> scan.raised,
                   shown |-> {reg[x].id : x \in
                               {y \in 1..scan.fetched : PageShown(fc[reg[y].id])}},
                   lost |-> IF scan.raised
                            THEN {scan.all[x].id : x \in 1..Len(scan.all)}
                                 \cup {reg[x].id : x \in (scan.fetched + 1)..Len(reg)}
                            ELSE {},
                   manual |-> Reply(c, IF scan.raised THEN "error"
                                       ELSE IF scan.all = <<>> THEN "completed"
                                       ELSE "pending")]
    /\ rereturned' = (rereturned \/ ReturnedSettled(reg, scan.all))
    /\ IF scan.raised \/ scan.all = <<>>
       THEN UNCHANGED <<pc, mon, todo, pos>>
       ELSE /\ pc' = [pc EXCEPT ![c] = "send"]
            /\ mon' = [mon EXCEPT ![c] =
                  [modules |-> reg, sent_links |-> scan.sent_links]]
            /\ todo' = [todo EXCEPT ![c] = scan.all]
            /\ pos' = [pos EXCEPT ![c] = [i |-> 1, j |-> 1]]

StartCycle(c) ==
    /\ pc[c] = "idle"
    /\ ops < MaxOps
    /\ ops' = ops + 1
    /\ overlapped' = (overlapped \/ \E o \in Cycles \ {c} : pc[o] # "idle")
    /\ events' = [events EXCEPT ![c] =
          <<[e |-> "load", i |-> TotalLinks(sentFile), j |-> 0]>>]
    /\ saves' = [saves EXCEPT ![c] = 0]
    /\ \E lc \in LoginCases :
        LET l == Login(lc.lp, lc.post)
        IN  IF l.ret # "true"
            THEN LoginRejected(c, l)
            ELSE \E fc \in [RegIds(modulesFile) -> FetchCases] :
                    CheckModules(c, modulesFile, fc,
                        ScanModules(modulesFile, 1, sentFile, <<>>, fc, page))
    /\ UNCHANGED <<modulesFile, sentFile, page, res, sends, settled,
                   unconfirmed, call, job, store,
                   form, visit>>

(***************************************************************************)
(* One invocation of send_file_notification for the current descriptor     *)
(* (line 295).  On "retry" it sleeps and recurses: the same invocation      *)
(* again, with nothing changed.                                            *)
(***************************************************************************)
CurModule(c) == todo[c][pos[c].i].id
CurFile(c) == todo[c][pos[c].i].files[pos[c].j]
CurChat(c) == RegChat(mon[c].modules, CurModule(c))
CurKey(c) == <<CurModule(c), Str(CurChat(c)), CurFile(c).url>>

\* the messages of one invocation that carry the resource (not the notice
\* of a failure)
Carried(msgs) ==
    Cardinality({x \in 1..Len(msgs) : msgs[x].kind # "error_notice"})

Deliver(c) ==
    /\ pc[c] = "send"
    /\ \E env \in Envs :
        LET r == SendFileNotification(CurChat(c), CurFile(c), env)
        IN  /\ sends' = Bump(sends, CurKey(c), Carried(r.msgs))
            /\ IF r.ret = "retry"
               THEN UNCHANGED <<pc, res, events>>
               ELSE /\ pc' = [pc EXCEPT ![c] = "record"]
                    /\ res' = [res EXCEPT ![c] =
                          [ret |-> r.ret, msgs |-> r.msgs,
                           dl |-> IF CurFile(c).type \in {"drive", "pdf"}
                                  THEN env.dl ELSE "none"]]
                    /\ events' = [events EXCEPT ![c] =
                          Append(@, [e |-> "ret", i |-> pos[c].i, j |-> pos[c].j])]
    /\ UNCHANGED <<modulesFile, sentFile, page, mon, todo, pos, saves, settled,
                   rereturned, unconfirmed, overlapped, ops, call, job, store,
                   form, visit>>
    /\ outcome' = NoOutcome

(***************************************************************************)
(* Lines 297-307: send_file_notification has returned (its result is not   *)
(* read); the url is appended to the monitor's ledger, then the loop moves *)
(* on.                                                                     *)
(***************************************************************************)
\* a loop that goes on to the next descriptor at once
NoSleep(log, at) == log

\* line 303: await asyncio.sleep(3), once the url is appended
Slept(log, at) == Append(log, [e |-> "sleep", i |-> at.i, j |-> at.j])

RecordLink(sl, m, k, url) == AppendLink(sl, m, k, url)

\* a loop that writes the documents after every descriptor
RecordAndSave(c) ==
    /\ pc[c] = "record"
    /\ LET m == CurModule(c)
           k == Str(CurChat(c))
           f == CurFile(c)
           last == pos[c].j = Len(todo[c][pos[c].i].files)
       IN  /\ mon' = [mon EXCEPT ![c].sent_links = RecordLink(@, m, k, f.url)]
           /\ events' = [events EXCEPT ![c] =
                 Slept(Append(@, [e |-> "append", i |-> pos[c].i,
                                  j |-> pos[c].j]), pos[c])]
           /\ settled' = IF res[c].ret = "true" THEN settled \cup {CurKey(c)} ELSE settled
           /\ unconfirmed' = IF res[c].ret = "false"
                             THEN unconfirmed \cup {CurKey(c)} ELSE unconfirmed
           /\ IF ~last
              THEN /\ pos' = [pos EXCEPT ![c].j = @ + 1]
                   /\ pc' = [pc EXCEPT ![c] = "send"]
              ELSE IF pos[c].i < Len(todo[c])
              THEN /\ pos' = [pos EXCEPT ![c] = [i |-> pos[c].i + 1, j |-> 1]]
                   /\ pc' = [pc EXCEPT ![c] = "send"]
              ELSE /\ pos' = pos
                   /\ pc' = [pc EXCEPT ![c] = "save"]
    /\ res' = [res EXCEPT ![c] = NoRes]
    /\ modulesFile' = mon[c].modules
    /\ sentFile' = mon'[c].sent_links
    /\ saves' = [saves EXCEPT ![c] = @ + 1]
    /\ UNCHANGED <<page, todo, sends, rereturned, overlapped, ops, call, job, store,
                   form, visit>>
    /\ outcome' = NoOutcome

Record(c) ==
    /\ pc[c] = "record"
    /\ LET m == CurModule(c)
           k == Str(CurChat(c))
           f == CurFile(c)
           last == pos[c].j = Len(todo[c][pos[c].i].files)
       IN  /\ mon' = [mon EXCEPT ![c].sent_links = RecordLink(@, m, k, f.url)]
           /\ events' = [events EXCEPT ![c] =
                 Slept(Append(@, [e |-> "append", i |-> pos[c].i,
                                  j |-> pos[c].j]), pos[c])]
           /\ settled' = IF res[c].ret = "true" THEN settled \cup {CurKey(c)} ELSE settled
           /\ unconfirmed' = IF res[c].ret = "false"
                             THEN unconfirmed \cup {CurKey(c)} ELSE unconfirmed
           /\ IF ~last
              THEN /\ pos' = [pos EXCEPT ![c].j = @ + 1]
                   /\ pc' = [pc EXCEPT ![c] = "send"]
              ELSE IF pos[c].i < Len(todo[c])
              THEN /\ pos' = [pos EXCEPT ![c] = [i |-> pos[c].i + 1, j |-> 1]]
                   /\ pc' = [pc EXCEPT ![c] = "send"]
              ELSE /\ pos' = pos
                   /\ pc' = [pc EXCEPT ![c] = "save"]
    /\ res' = [res EXCEPT ![c] = NoRes]
    /\ UNCHANGED <<modulesFile, sentFile, page, todo, saves, sends,
                   rereturned, overlapped, ops, call, job, store,
                   form, visit>>
    /\ outcome' = NoOutcome

(***************************************************************************)
(* Lines 311-313 with save_data: both documents are written from the       *)
(* monitor's copies, once, after the second loop.                          *)
(***************************************************************************)
SaveCycle(c) ==
    /\ pc[c] = "save"
    /\ modulesFile' = mon[c].modules
    /\ sentFile' = mon[c].sent_links
    /\ saves' = [saves EXCEPT ![c] = @ + 1]
    /\ events' = [events EXCEPT ![c] = <<>>]
    /\ pc' = [pc EXCEPT ![c] = "idle"]
    /\ mon' = [mon EXCEPT ![c] = IdleMon]
    /\ todo' = [todo EXCEPT ![c] = <<>>]
    /\ pos' = [pos EXCEPT ![c] = NoPos]
    /\ UNCHANGED <<page, res, sends, settled, rereturned,
                   unconfirmed, overlapped, ops, call, job, store,
                   form, visit>>
    /\ outcome' = [NoOutcome EXCEPT !.manual = Reply(c, "completed")]

(***************************************************************************)
(* Registry commands.  Each handler builds a fresh PDFMonitor (loading     *)
(* both documents), changes it and saves, with nothing awaited in between. *)
(* The Application handles one update at a time, so no command runs while  *)
(* the /check handler has not returned.                                    *)
(***************************************************************************)
AddModule(m, d) ==
    /\ pc["manual"] = "idle"
    /\ ops < MaxOps
    /\ modulesFile' = RegPut(modulesFile, m, d)
    /\ sentFile' = Ensure(sentFile, m, Str(d))
    /\ ops' = ops + 1
    /\ UNCHANGED <<page, pc, mon, todo, pos, res, events, saves, sends,
                   settled, rereturned, unconfirmed, overlapped, call, job, store,
                   form, visit>>
    /\ outcome' = [NoOutcome EXCEPT !.added =
                    [id |-> m, chat_id |-> d, known |-> m \in RegIds(modulesFile)]]

\* handle_remove_confirmation (lines 1056-1082): result is what
\* remove_module returned (lines 260-266), and the text the message is
\* edited to is logged with the id and the action of the button.
RemoveModule(m, action) ==
    /\ pc["manual"] = "idle"
    /\ ops < MaxOps
    /\ LET result == m \in RegIds(modulesFile)
           wipe == result /\ action = "delete" /\ m \in DOMAIN sentFile
           said == IF wipe THEN "history_removed"
                   ELSE IF result /\ action = "delete" THEN "no_history"
                   ELSE IF result THEN "history_kept"
                   ELSE "failed"
       IN  /\ modulesFile' = IF result THEN RegDel(modulesFile, m) ELSE modulesFile
           /\ sentFile' = IF wipe THEN DropModule(sentFile, m) ELSE sentFile
           /\ settled' = IF wipe THEN {t \in settled : t[1] # m} ELSE settled
           /\ outcome' = [NoOutcome EXCEPT
                  !.removed = [id |-> m, action |-> action, said |-> said]]
    /\ ops' = ops + 1
    /\ UNCHANGED <<page, pc, mon, todo, pos, res, events, saves, sends,
                   rereturned, unconfirmed, overlapped, call, job, store,
                   form, visit>>

\* the registrations the administrator may confirm
Registrations ==
    {[id |-> "m1", chat_id |-> DChat], [id |-> "m1", chat_id |-> DTopic],
     [id |-> "m2", chat_id |-> DChat]}

Next ==
    \/ \E c \in Cycles : StartCycle(c)
    \/ \E c \in Cycles : Deliver(c)
    \/ \E c \in Cycles : Record(c)
    \/ \E c \in Cycles : SaveCycle(c)
    \/ \E r \in Registrations : AddModule(r.id, r.chat_id)
    \/ \E m \in Modules, a \in {"keep", "delete"} : RemoveModule(m, a)

Spec == Init /\ [][Next]_vars

\* The loop runs a handler on to its next await, and the channel answers
\* RetryAfter finitely often: a delivery, its recording and the save of a
\* cycle that can happen do happen.
SpecFair ==
    /\ Spec
    /\ \A c \in Cycles :
          WF_vars(Deliver(c)) /\ WF_vars(Record(c)) /\ WF_vars(SaveCycle(c))

(***************************************************************************)
(* The session on its own: one call of get_page, or of login (the /login   *)
(* command, test_login), against every response the portal can give.       *)
(***************************************************************************)
LoginPages == {WelcomePage, Unreachable}

\* the cookie document the process starts with: none, or an earlier login's
CookieFiles == {Missing, Content(<<"old">>)}

Pending(op, r1, lp, post, r2, file) ==
    [op |-> op, r1 |-> r1, lp |-> lp, post |-> post, r2 |-> r2,
     kind |-> "pending", text |-> EmptyText, trace |-> <<>>, saved |-> FALSE,
     before |-> file, cookies |-> file, hidden |-> <<>>, data |-> <<>>]

\* the hidden inputs of the login form, in document order
Hidden(name, value) == [name |-> name, value |-> value]

HiddenForms ==
    { <<>>,
      <<Hidden("logintoken", "tok")>>,
      <<Hidden("anchor", ""), Hidden("logintoken", "tok")>>,
      <<Hidden("", "x"), Hidden("logintoken", "tok")>>,
      <<Hidden("logintoken", "tok"), Hidden("username", "guest")>> }

Credentials == ("username" :> "user") @@ ("password" :> "pass")

\* lines 130-138: the credentials, then every hidden input whose name and
\* value are both non-empty, a later one replacing an earlier key
RECURSIVE LoginData(_)
LoginData(fields) ==
    IF fields = <<>> THEN Credentials
    ELSE LET n == Len(fields)
             f == fields[n]
             d == LoginData(SubSeq(fields, 1, n - 1))
         IN  IF f.name # "" /\ f.value # ""
             THEN (f.name :> f.value) @@ d
             ELSE d

\* line 141: what the POST carries, when the call gets as far as the POST
Posted(l, fields) ==
    IF Count(l.trace, "post_login") > 0 THEN LoginData(fields) ELSE <<>>

SessionCalls ==
    {Pending("get_page", r1, lp, post, r2, Missing) :
        r1 \in Responses, lp \in LoginPages, post \in Responses, r2 \in Responses}
    \cup {[Pending("login", EmptyText, lp, post, EmptyText, file)
              EXCEPT !.hidden = h] :
        lp \in LoginPages, post \in Responses, file \in CookieFiles,
        h \in HiddenForms}

\* line 149: the cookies of the session are written on login's way to True
Saved(l, file) ==
    IF l.saved THEN SaveCookies(file, <<"sid">>, "ok").file ELSE file

SessionGetPage ==
    /\ call.op = "get_page"
    /\ call.kind = "pending"
    /\ LET g == GetPage(call.r1, call.lp, call.post, call.r2)
       IN  call' = [call EXCEPT !.kind = g.kind, !.text = g.text,
                                !.trace = g.trace,
                                !.saved = (Count(g.trace, "login") > 0
                                           /\ Login(call.lp, call.post).saved),
                                !.cookies =
                                    IF Count(g.trace, "login") > 0
                                    THEN Saved(Login(call.lp, call.post), @)
                                    ELSE @]
    /\ UNCHANGED mainVars

SessionLogin ==
    /\ call.op = "login"
    /\ call.kind = "pending"
    /\ LET l == Login(call.lp, call.post)
       IN  call' = [call EXCEPT !.kind = l.ret, !.trace = l.trace,
                                !.saved = l.saved,
                                !.cookies = Saved(l, @),
                                !.data = Posted(l, call.hidden)]
    /\ UNCHANGED mainVars

InitSession ==
    /\ InitCommon
    /\ form = NoForm
    /\ visit = NoVisit
    /\ modulesFile = <<>>
    /\ sentFile = NoDict
    /\ page = [m \in Modules |-> <<>>]
    /\ call \in SessionCalls
    /\ job = NoJob
    /\ store = NoStore

NextSession == SessionGetPage \/ SessionLogin

SpecSession == InitSession /\ [][NextSession]_vars

(***************************************************************************)
(* The dispatcher on its own: one call of send_file_notification for one   *)
(* descriptor, followed through its recursion.  limits is the number of    *)
(* times the channel will still answer RetryAfter; each invocation         *)
(* downloads again and meets its own answers.                              *)
(***************************************************************************)
MaxLimits == 2

\* The address of every send one invocation attempts, accepted or not:
\* kwargs (lines 572-579) for send_message and send_document, the raw
\* chat_id and no message_thread_id (lines 643-647) for the notice of the
\* outer handler.
Addressed(chat_id, file_info, env) ==
    LET to == [chat |-> <<chat_id.parts[1]>>,
               thread |-> IF chat_id.isStr THEN chat_id.parts[2] ELSE 0]
        notice == [chat |-> chat_id.parts, thread |-> 0]
        again == file_info.type \in {"drive", "pdf"} /\ env.dl = "ok"
                    /\ env.s1 = "retry"
    IN  IF file_info.type \notin {"youtube", "drive", "pdf"} THEN <<>>
        ELSE <<to>>
             \o (IF again THEN <<to>> ELSE <<>>)
             \o (IF env.s1 = "error" \/ (again /\ env.s2 = "error")
                 THEN <<notice>> ELSE <<>>)

FPdf == Descriptor(UrlA, "a", "pdf", UrlA)
FWrapped == Descriptor(UrlW, "w", "pdf", UrlW)
FDrive == Descriptor(UrlV, "d", "drive", UrlDrive)
FDriveOpen == Descriptor(UrlV, "o", "drive", UrlDriveOpen)
FDriveFolder == Descriptor(UrlV, "f", "drive", UrlDriveFolder)
FDriveUuid == Descriptor(UrlV, "u", "drive", UrlDriveUuid)
FTube == Descriptor(UrlV, "v", "youtube", UrlTube)

Files == {FPdf, FWrapped, FDrive, FDriveOpen, FDriveFolder, FDriveUuid, FTube}

Jobs ==
    {[NoJob EXCEPT !.pc = "call", !.chat_id = c, !.file = f, !.limits = n] :
        c \in Dests, f \in Files, n \in 0..MaxLimits}

\* the RetryAfter answers an invocation meets
Limited(file_info, env) ==
    IF env.s1 # "retry" THEN 0
    ELSE IF file_info.type \in {"drive", "pdf"} /\ env.dl = "ok" /\ env.s2 = "retry"
    THEN 2
    ELSE 1

\* the download is attempted for documents only; its answers are left at
\* DOk when never asked for
Asked(file_info, d1, d2) ==
    /\ file_info.type \notin {"drive", "pdf"} => (d1 = DOk /\ d2 = DOk)
    /\ ~(Contains(file_info.final_url, "resource/view.php") /\ d1.anchor) => d2 = DOk

DispatchCall ==
    /\ job.pc = "call"
    /\ \E d1 \in DownloadResponses, d2 \in DownloadResponses, env \in Envs :
        LET dl == IF job.file.type \in {"drive", "pdf"}
                  THEN DownloadFile(job.file.final_url, d1, d2)
                  ELSE NoDownload
            r == SendFileNotification(job.chat_id, job.file, env)
            n == Limited(job.file, env)
        IN  /\ Asked(job.file, d1, d2)
            /\ job.file.type \in {"drive", "pdf"} => (env.dl = "ok") = (dl.ret = "path")
            /\ job.file.type \notin {"drive", "pdf"} => env.dl = "ok"
            /\ n <= job.limits
            /\ job' = [job EXCEPT
                  !.pc = IF r.ret = "retry" THEN "call" ELSE "done",
                  !.ret = IF r.ret = "retry" THEN "none" ELSE r.ret,
                  !.msgs = @ \o r.msgs,
                  !.calls = @ + 1,
                  !.waits = @ + n,
                  !.limits = @ - n,
                  !.env = env, !.d1 = d1, !.d2 = d2, !.dl = dl,
                  !.disk = ArtifactAfter(job.file, dl, job.disk),
                  !.addressed = @ \o Addressed(job.chat_id, job.file, env)]
    /\ UNCHANGED <<coreVars, call, store, form, visit>>

InitDispatch ==
    /\ InitCommon
    /\ form = NoForm
    /\ visit = NoVisit
    /\ modulesFile = <<>>
    /\ sentFile = NoDict
    /\ page = [m \in Modules |-> <<>>]
    /\ call = NoCall
    /\ job \in Jobs
    /\ store = NoStore

NextDispatch == DispatchCall

SpecDispatch == InitDispatch /\ [][NextDispatch]_vars

\* the channel rate-limits finitely often, and an invocation that can be
\* made is made
SpecDispatchFair == SpecDispatch /\ WF_vars(DispatchCall)

(***************************************************************************)
(* The storage on its own: handlers that build a PDFMonitor (loading both  *)
(* documents), register a module and save, a login that saves its cookies, *)
(* a session that loads them, and an environment that may remove, empty or *)
(* garble a file between two handlers.                                     *)
(***************************************************************************)
MaxStoreOps == 3

Damages == {Missing, ZeroByte, Malformed}

Documents == {"modules", "links", "cookies"}

\* the default is written only for a file that is missing or zero-byte
DefaultWritten(file, w) == file.state \notin {"missing", "empty"} => w = "ok"

StoreLoad ==
    /\ store.n < MaxStoreOps
    /\ \E w \in WriteOutcomes :
        LET f == store.files
            lm == LoadJson(f.modules, store.defaults.modules, w)
            ll == LoadJson(f.links, store.defaults.links, w)
        IN  /\ DefaultWritten(f.modules, w) \/ DefaultWritten(f.links, w)
            /\ store' = [store EXCEPT
                  !.files.modules = lm.file,
                  !.files.links = ll.file,
                  !.last = [NoLast EXCEPT !.op = "load",
                               !.from = <<f.modules.state, f.links.state>>,
                               !.modules = lm.data, !.links = ll.data, !.w = w],
                  !.n = @ + 1]
    /\ UNCHANGED <<coreVars, call, job, form, visit>>

StoreRegister(m, d) ==
    /\ store.n < MaxStoreOps
    /\ \E w \in WriteOutcomes :
        LET f == store.files
            lm == LoadJson(f.modules, store.defaults.modules, "ok")
            ll == LoadJson(f.links, store.defaults.links, "ok")
            modules == RegPut(lm.data, m, d)
            links == Ensure(ll.data, m, Str(d))
            sm == SaveJson(lm.file, modules, w)
            sl == SaveJson(ll.file, links, w)
        IN  store' = [store EXCEPT
                !.files.modules = sm.file,
                !.files.links = sl.file,
                !.defaults.modules = IF lm.aliased THEN modules ELSE @,
                !.defaults.links = IF ll.aliased THEN links ELSE @,
                !.last = [NoLast EXCEPT !.op = "register",
                             !.from = <<f.modules.state, f.links.state>>,
                             !.modules = modules, !.links = links, !.w = w,
                             !.raised = sm.raised \/ sl.raised,
                             !.ret = IF sm.raised \/ sl.raised
                                     THEN "raise" ELSE "true"],
                !.n = @ + 1]
    /\ UNCHANGED <<coreVars, call, job, form, visit>>

\* login() with a portal that accepts it: lines 144-151
StoreLogin ==
    /\ store.n < MaxStoreOps
    /\ \E w \in WriteOutcomes :
        LET l == Login(WelcomePage, WelcomePage)
            sc == SaveCookies(store.files.cookies, <<"sid">>, w)
        IN  store' = [store EXCEPT
                !.files.cookies = IF l.saved THEN sc.file ELSE @,
                !.last = [NoLast EXCEPT !.op = "login",
                             !.from = <<store.files.cookies.state>>,
                             !.cookies = <<"sid">>, !.w = w,
                             !.raised = l.saved /\ sc.raised,
                             !.ret = IF l.saved /\ sc.raised THEN "raise" ELSE l.ret],
                !.n = @ + 1]
    /\ UNCHANGED <<coreVars, call, job, form, visit>>

StoreLoadCookies ==
    /\ store.n < MaxStoreOps
    /\ store' = [store EXCEPT
          !.last = [NoLast EXCEPT !.op = "cookies",
                       !.from = <<store.files.cookies.state>>,
                       !.cookies = LoadCookies(store.files.cookies)],
          !.n = @ + 1]
    /\ UNCHANGED <<coreVars, call, job, form, visit>>

StoreDamage(doc, how) ==
    /\ store.n < MaxStoreOps
    /\ store.files[doc] # how
    /\ store' = [store EXCEPT !.files[doc] = how,
                              !.last = [NoLast EXCEPT !.op = "damage"],
                              !.n = @ + 1]
    /\ UNCHANGED <<coreVars, call, job, form, visit>>

InitStore ==
    /\ InitCommon
    /\ form = NoForm
    /\ visit = NoVisit
    /\ modulesFile = <<>>
    /\ sentFile = NoDict
    /\ page = [m \in Modules |-> <<>>]
    /\ call = NoCall
    /\ job = NoJob
    /\ \E fm \in {Missing, Content(<<>>)}, fl \in {Missing, Content(NoDict)} :
          store = [NoStore EXCEPT !.files.modules = fm, !.files.links = fl]

NextStore ==
    \/ StoreLoad
    \/ \E r \in Registrations : StoreRegister(r.id, r.chat_id)
    \/ StoreLogin
    \/ StoreLoadCookies
    \/ \E doc \in Documents, how \in Damages : StoreDamage(doc, how)

SpecStore == InitStore /\ [][NextStore]_vars

(***************************************************************************)
(* Registration on its own: the /addmodule conversation.  add_module_start *)
(* derives the module id from the url given (lines 743-749) and keeps it   *)
(* in context.user_data; complete_module_addition (lines 887-933) stores   *)
(* the module under that id, or the conversation is cancelled.  A course   *)
(* url is what urlparse makes of it: whether it parses at all (urlparse    *)
(* raises ValueError on a malformed bracketed host), its path and the      *)
(* key=value pairs of its query.                                           *)
(***************************************************************************)
MaxForms == 2   \* registrations confirmed in one behaviour
MaxNow == 2     \* seconds on the clock
MaxPresses == 3 \* commands and buttons outside the conversation

CourseUrl(parses, path, query) ==
    [parses |-> parses, path |-> path, query |-> query]

CourseUrls ==
    {CourseUrl(TRUE, "view", <<<<"id", "7">>>>),
     CourseUrl(TRUE, "view", <<<<"section", "2">>, <<"id", "8">>>>),
     CourseUrl(TRUE, "view", <<<<"id", "">>>>),
     CourseUrl(TRUE, "view", <<>>),
     CourseUrl(TRUE, "index", <<<<"section", "2">>>>),
     CourseUrl(FALSE, "view", <<<<"id", "7">>>>)}

\* urllib.parse.parse_qs, for one key: the values given to the key, in
\* order, without the blank ones (keep_blank_values is False)
RECURSIVE ParseQs(_, _)
ParseQs(query, key) ==
    IF query = <<>> THEN <<>>
    ELSE LET rest == ParseQs(Tail(query), key)
         IN  IF Head(query)[1] = key /\ Head(query)[2] # ""
             THEN <<Head(query)[2]>> \o rest
             ELSE rest

\* lines 744-749: query_params.get('id', ['unknown'])[0], and the timestamp
\* id only where parsing raised
ModuleId(url, now) ==
    IF ~url.parses THEN <<"module", now>>
    ELSE LET ids == ParseQs(url.query, "id")
         IN  IF ids = <<>> THEN <<"unknown">> ELSE <<ids[1]>>

\* lines 240-245: self.modules[module_id] = {...}
FormPut(reg, e) ==
    IF \E i \in 1..Len(reg) : reg[i].id = e.id
    THEN [i \in 1..Len(reg) |-> IF reg[i].id = e.id THEN e ELSE reg[i]]
    ELSE Append(reg, e)

\* the users who can reach the bot: the one of CONFIG["ADMIN_ID"], and
\* another member of a chat the bot is in
Users == {"admin", "guest"}

\* the text of a message, cut at its underscores (line 839)
Texts ==
    {<<"100">>, <<"100", "2">>, <<"abc">>, <<"100", "x">>, <<"100", "2", "7">>}

\* int(): the pieces int() takes, and what it makes of them
IntOf == ("100" :> 100) @@ ("2" :> 2) @@ ("7" :> 7)

\* lines 836-847: the chat id the text stands for, <<>> where int() raises
\* ValueError; only the first two pieces of a text with "_" are looked at
ChatIdOf(text) ==
    IF Len(text) > 1
    THEN IF text[1] \in DOMAIN IntOf /\ text[2] \in DOMAIN IntOf
         THEN <<[isStr |-> TRUE, parts |-> [i \in 1..Len(text) |-> IntOf[text[i]]]]>>
         ELSE <<>>
    ELSE IF text[1] \in DOMAIN IntOf
         THEN <<[isStr |-> FALSE, parts |-> <<IntOf[text[1]]>>]>>
         ELSE <<>>

\* lines 655-657, 720-724, 969-973, 1088-1090: a command of another user
\* than the administrator is answered "not authorized" and does no more
Refused(u) ==
    /\ u # "admin"
    /\ form.presses < MaxPresses
    /\ form' = [form EXCEPT !.said = "refused", !.by = u, !.presses = @ + 1]
    /\ UNCHANGED <<coreVars, call, job, store, visit>>

\* lines 718-772, entry point of the conversation (line 1216): taken when
\* the administrator is in no conversation
AddModuleStart(url) ==
    /\ Len(form.confirmed) < MaxForms
    /\ form.state = "end"
    /\ form' = [form EXCEPT
          !.pending = <<[id |-> ModuleId(url, form.now), url |-> url,
                         chat_id |-> <<>>]>>,
          !.state = "selecting",
          !.said = "where", !.by = "admin"]
    /\ UNCHANGED <<coreVars, call, job, store, visit>>

\* lines 774-808: the button "This chat"
SelectChat ==
    /\ form.state = "selecting"
    /\ form' = [form EXCEPT
          !.pending = <<[form.pending[1] EXCEPT !.chat_id = <<DChat>>]>>,
          !.state = "confirm",
          !.said = "correct?", !.by = "admin"]
    /\ UNCHANGED <<coreVars, call, job, store, visit>>

\* lines 810-826: the button "Another chat"
SelectOtherChat ==
    /\ form.state = "selecting"
    /\ ~form.waiting
    /\ form' = [form EXCEPT !.waiting = TRUE, !.said = "enter", !.by = "admin"]
    /\ UNCHANGED <<coreVars, call, job, store, visit>>

\* lines 828-884: a text message in the state SELECTING_CHAT; a handler
\* that returns None leaves the conversation where it is
HandleChatIdInput(text) ==
    /\ form.state = "selecting"
    /\ form.waiting
    /\ LET chat_id == ChatIdOf(text)
       IN  form' =
             IF chat_id = <<>>
             THEN [form EXCEPT !.said = "invalid", !.by = "admin"]
             ELSE [form EXCEPT
                     !.pending = <<[form.pending[1] EXCEPT !.chat_id = chat_id]>>,
                     !.waiting = FALSE,
                     !.state = "confirm",
                     !.said = "correct?", !.by = "admin"]
    /\ UNCHANGED <<coreVars, call, job, store, visit>>

\* lines 892-920, 930-934: the button "Confirm"
CompleteModuleAddition ==
    /\ form.state = "confirm"
    /\ LET data == form.pending[1]
           chat_id == data.chat_id[1]
       IN  form' = [form EXCEPT
              !.modules = FormPut(@, [id |-> data.id, url |-> data.url,
                                      chat_id |-> chat_id]),
              !.links = Ensure(@, data.id, Str(chat_id)),
              !.confirmed = Append(@, data.url),
              !.pending = <<>>,
              !.state = "end",
              !.said = "added", !.by = "admin"]
    /\ UNCHANGED <<coreVars, call, job, store, visit>>

\* lines 927-934: the button "Cancel", or any other button pressed by the
\* administrator in the state CONFIRM_ADDITION (the handler of line 1224
\* has no pattern)
CancelAdd ==
    /\ form.state = "confirm"
    /\ form' = [form EXCEPT !.pending = <<>>, !.state = "end",
                            !.said = "cancelled", !.by = "admin"]
    /\ UNCHANGED <<coreVars, call, job, store, visit>>

\* line 1226: the fallback /cancel, a lambda that returns END and touches
\* nothing; the dispatcher awaits what a callback returns, and awaiting
\* the lambda's int raises TypeError, which leaves the conversation where
\* it was (ended: the return value is taken as the new state)
CancelCommand(ended) ==
    /\ form.state # "end"
    /\ form' = [form EXCEPT
          !.state = IF ended THEN "end" ELSE @,
          !.said = IF ended THEN "ended" ELSE "raised", !.by = "admin"]
    /\ UNCHANGED <<coreVars, call, job, store, visit>>

\* lines 967-999: /removemodule of the administrator shows one button
\* remove_<id> for every module
RemoveCommand ==
    /\ form.modules # <<>>
    /\ form.presses < MaxPresses
    /\ form' = [form EXCEPT
          !.menu = {form.modules[i].id : i \in 1..Len(form.modules)},
          !.asked = <<>>,
          !.said = "select", !.by = "admin", !.presses = @ + 1]
    /\ UNCHANGED <<coreVars, call, job, store, visit>>

\* the conversation handler (line 1233) comes before the handlers of lines
\* 1241-1250 and takes every button of a user who is in CONFIRM_ADDITION
Passed(u) == ~(u = "admin" /\ form.state = "confirm")

\* lines 1001-1034: the button remove_<id> of the keyboard on show, pressed
\* by any user who sees it; the message becomes the question how to remove
HandleRemoveCallback(u, m) ==
    /\ m \in form.menu
    /\ Passed(u)
    /\ form.presses < MaxPresses
    /\ form' = [form EXCEPT !.menu = {}, !.asked = <<m>>,
                            !.said = "how", !.by = u, !.presses = @ + 1]
    /\ UNCHANGED <<coreVars, call, job, store, visit>>

\* lines 1007-1009: the button cancel_remove
CancelRemove(u) ==
    /\ form.menu # {} \/ form.asked # <<>>
    /\ Passed(u)
    /\ form.presses < MaxPresses
    /\ form' = [form EXCEPT !.menu = {}, !.asked = <<>>,
                            !.said = "kept", !.by = u, !.presses = @ + 1]
    /\ UNCHANGED <<coreVars, call, job, store, visit>>

\* lines 1036-1084, 260-266: the button confirm_remove_<id>_<action>_history
HandleRemoveConfirmation(u, action) ==
    /\ form.asked # <<>>
    /\ Passed(u)
    /\ form.presses < MaxPresses
    /\ LET m == form.asked[1]
           result == \E i \in 1..Len(form.modules) : form.modules[i].id = m
       IN  form' = [form EXCEPT
              !.modules = RegDel(@, m),
              !.links = IF action = "delete" /\ result THEN DropModule(@, m) ELSE @,
              !.asked = <<>>,
              !.said = IF result THEN "removed" ELSE "failed",
              !.by = u, !.presses = @ + 1]
    /\ UNCHANGED <<coreVars, call, job, store, visit>>

Tick ==
    /\ form.now < MaxNow
    /\ form' = [form EXCEPT !.now = @ + 1]
    /\ UNCHANGED <<coreVars, call, job, store, visit>>

InitForm ==
    /\ InitCommon
    /\ form = NoForm
    /\ visit = NoVisit
    /\ modulesFile = <<>>
    /\ sentFile = NoDict
    /\ page = [m \in Modules |-> <<>>]
    /\ call = NoCall
    /\ job = NoJob
    /\ store = NoStore

NextForm ==
    \/ \E url \in CourseUrls : AddModuleStart(url)
    \/ SelectChat
    \/ SelectOtherChat
    \/ \E text \in Texts : HandleChatIdInput(text)
    \/ CompleteModuleAddition
    \/ CancelAdd
    \/ \E ended \in BOOLEAN : CancelCommand(ended)
    \/ \E u \in Users : Refused(u)
    \/ RemoveCommand
    \/ \E u \in Users, m \in form.menu : HandleRemoveCallback(u, m)
    \/ \E u \in Users : CancelRemove(u)
    \/ \E u \in Users, action \in {"keep", "delete"} : HandleRemoveConfirmation(u, action)
    \/ Tick

SpecForm == InitForm /\ [][NextForm]_vars

(***************************************************************************)
(* The page scan on its own: check_module_page for one module and one      *)
(* destination, on a page of up to MaxNodes different nodes and a ledger   *)
(* list, followed by the recording of every descriptor it returned (the    *)
(* second loop of check_modules, lines 296-301) and another scan of the    *)
(* same page.  asked lists, in the order of the calls, the nodes for which *)
(* process_resource_link or process_url_link was called; each call makes   *)
(* the one GET of line 430 or 504.                                         *)
(***************************************************************************)
MaxNodes == 2    \* nodes on a page
MaxVisits == 2   \* scans of the page

UrlD == <<"https://", "x/d">>
UrlR == <<"https://", "x/r">>
UrlP == <<"https://", "x/url/view.php?id=8">>
UrlO == <<"https://", "x/url/view.php?id=9">>
UrlQ == <<"https://", "x/url/view.php?id=10">>
UrlY == <<"https://", "x/y">>
UrlOther == <<"https://", "example.org">>
UrlDrivePdf == <<"https://", "drive.google.com", "/f", ".pdf">>
UrlTubePdf == <<"https://", "youtube.com", "/f", ".pdf">>

\* requests raises: no response
NoResp ==
    [status |-> "unreachable", ctype |-> "", url |-> <<>>, anchor |-> NoAnchor]

NDown == Node("resource", UrlD, <<>>, "x", NoResp)
NResTube == Node("resource", UrlR, <<>>, "t", HtmlResp(UrlTube))
NUrlPdf == Node("url", UrlP, <<>>, "r", HtmlResp(UrlA))
NOther == Node("url", UrlO, <<>>, "o", HtmlResp(UrlOther))
NDrivePdf == Node("url", UrlQ, <<>>, "q", HtmlResp(UrlDrivePdf))
NTubePdf == Node("resource", UrlY, <<>>, "y", HtmlResp(UrlTubePdf))

VisitNodes ==
    {NPdf, NBare, NVideo, NClick, NNone, NDown, NResTube, NUrlPdf, NOther,
     NDrivePdf, NTubePdf}

VisitPages ==
    {p \in UNION {[1..n -> VisitNodes] : n \in 0..MaxNodes} :
        \A i, j \in DOMAIN p : p[i] = p[j] => i = j}

VisitLedgers == {<<>>, <<UrlA>>, <<UrlV, UrlD>>}

\* a scan that gives up at the first request that raises
RECURSIVE RequestedUntilError(_, _, _, _)
RequestedUntilError(nodes, shape, chatSent, i) ==
    IF i > Len(nodes) THEN <<>>
    ELSE LET n == nodes[i]
             u == ExtractUrl(n)
             rest == RequestedUntilError(nodes, shape, chatSent, i + 1)
         IN  IF n.shape # shape \/ Blank(u) \/ InSeq(chatSent, u) THEN rest
             ELSE IF n.resp.status = "unreachable" THEN <<i>>
             ELSE <<i>> \o rest

\* lines 342-372, 377-406: the nodes of one shape that reach process_*_link
RECURSIVE Requested(_, _, _, _)
Requested(nodes, shape, chatSent, i) ==
    IF i > Len(nodes) THEN <<>>
    ELSE LET n == nodes[i]
             u == ExtractUrl(n)
             rest == Requested(nodes, shape, chatSent, i + 1)
         IN  IF n.shape # shape \/ Blank(u) \/ InSeq(chatSent, u) THEN rest
             ELSE <<i>> \o rest

VisitCheck ==
    /\ visit.pc = "page"
    /\ LET sl == ("m1" :> (Str(DChat) :> visit.sent))
           got == [kind |-> "content", text |-> ModulePage, trace |-> <<"get">>]
           r == CheckModulePage("m1", DChat, sl, got, visit.nodes)
       IN  visit' = [visit EXCEPT
              !.pc = "checked",
              !.files = r.new_files,
              !.asked = Requested(visit.nodes, "resource", visit.sent, 1)
                        \o Requested(visit.nodes, "url", visit.sent, 1)]
    /\ UNCHANGED <<coreVars, call, job, store, form>>

\* lines 296-301, every delivery accepted
VisitRecord ==
    /\ visit.pc = "checked"
    /\ visit.visits < MaxVisits
    /\ visit' = [visit EXCEPT
          !.pc = "page",
          !.sent = @ \o [i \in 1..Len(visit.files) |-> visit.files[i].url],
          !.files = <<>>,
          !.asked = <<>>,
          !.visits = @ + 1]
    /\ UNCHANGED <<coreVars, call, job, store, form>>

InitVisit ==
    /\ InitCommon
    /\ modulesFile = <<>>
    /\ sentFile = NoDict
    /\ page = [m \in Modules |-> <<>>]
    /\ call = NoCall
    /\ job = NoJob
    /\ store = NoStore
    /\ form = NoForm
    /\ \E p \in VisitPages, l \in VisitLedgers :
          visit = [NoVisit EXCEPT !.pc = "page", !.nodes = p, !.sent = l,
                                  !.visits = 1]

NextVisit == VisitCheck \/ VisitRecord

SpecVisit == InitVisit /\ [][NextVisit]_vars

(***************************************************************************)
(* Properties.                                                             *)
(***************************************************************************)

\* C1: when no two cycles overlap, a resource (module, destination, url) is
\* delivered to its destination at most once over any sequence of cycles,
\* a page listing the same url twice included.
C1_AtMostOnce ==
    ~overlapped => \A k \in DOMAIN sends : sends[k] <= 1

\* C2: when no two cycles overlap, a resource whose delivery succeeded and
\* whose url the ledger has recorded is never returned again by a later
\* check of its module, whether the page writes the url with or without a
\* scheme.
C2_NeverReturnedAgain ==
    ~overlapped => ~rereturned

\* C3: the ledger is extended only after a confirmed delivery; the url of a
\* delivery that failed is not recorded.
C3_OnlyConfirmedRecorded ==
    unconfirmed = {}

\* C4: destinations are isolated.  Recording a delivery for (module,
\* destination) changes no other list of the ledger, and a check of a module
\* whose page was shown returns every deliverable resource whose url is
\* absent from the list of the module's current destination, whatever the
\* lists of other destinations hold.
C4_Returned(c, m, u) ==
    /\ pc[c] = "send"
    /\ \E x \in 1..Len(todo[c]) :
          /\ todo[c][x].id = m
          /\ \E y \in 1..Len(todo[c][x].files) :
                todo[c][x].files[y].url = AddScheme(u)

C4_Scan ==
    (outcome.cycle \in Cycles /\ outcome.login = "true" /\ ~outcome.raised) =>
        \A m \in outcome.shown : \A x \in 1..Len(page[m]) :
            LET n == page[m][x]
                u == ExtractUrl(n)
                d == RegChat(modulesFile, m)
            IN  (/\ ~Blank(u)
                 /\ Classify(n.shape, u, n.name, n.resp) # NoFile
                 /\ ~InSeq(Links(sentFile, m, d.parts), u))
                => C4_Returned(outcome.cycle, m, u)

C4_Record ==
    \A c \in Cycles :
        (pc[c] = "record" /\ pc'[c] # "record") =>
            \A m \in Modules, d \in Dests :
                (m # CurModule(c) \/ d.parts # CurChat(c).parts) =>
                    Links(mon'[c].sent_links, m, d.parts)
                        = Links(mon[c].sent_links, m, d.parts)

C4_DestinationIsolation == [][C4_Record /\ C4_Scan']_vars

\* C4, its case: a url recorded for module m1 under the chat is returned
\* again by the check that follows the module's move to the topic.
C4_Reached ==
    /\ outcome.cycle \in Cycles
    /\ "m1" \in outcome.shown
    /\ RegChat(modulesFile, "m1") = DTopic
    /\ InSeq(Links(sentFile, "m1", DChat.parts), UrlA)
    /\ ~InSeq(Links(sentFile, "m1", DTopic.parts), UrlA)
    /\ C4_Returned(outcome.cycle, "m1", UrlA)

C6_Done == call.op = "get_page" /\ call.kind # "pending"

C6_BoundedRelogin ==
    C6_Done =>
        /\ Count(call.trace, "login") <= 1
        /\ Count(call.trace, "get") <= 2
        /\ Count(call.trace, "login") = 1 =>
              /\ call.r1.status = "ok"
              /\ call.r1.markers \cap {"loginerrors", "You are not logged in"} # {}
        /\ (/\ Count(call.trace, "login") = 1
            /\ call.lp.status = "ok"
            /\ call.post.status = "ok"
            /\ call.post.markers \cap {"loginerrors", "Invalid login"} # {})
           => (call.kind = "none" /\ call.trace = <<"get", "login">>)

\* C6, its case: the first response was expired and the login was rejected.
C6_Reached ==
    /\ C6_Done
    /\ "You are not logged in" \in call.r1.markers
    /\ "Invalid login" \in call.post.markers
    /\ call.trace = <<"get", "login">>
    /\ call.kind = "none"

\* C7: when the response fetched after a successful re-login is still
\* unauthenticated, get_page returns no content (an authentication
\* failure).
C7_StillExpiredFails ==
    (/\ C6_Done
     /\ call.trace = <<"get", "login", "get">>
     /\ call.r2.status = "ok"
     /\ call.r2.markers \cap {"loginerrors", "You are not logged in"} # {})
    => call.kind = "none"

\* C8: a cycle whose opening login fails, rejected or unreachable, fetches
\* no module page, leaves the cycle idle and is reported to the
\* administrator.
C8_LoginFailureReported ==
    outcome.login \in {"false", "raise"} =>
        /\ outcome.fetched = 0
        /\ pc[outcome.cycle] = "idle"
        /\ outcome.reported

\* C9: the failure to fetch one module's page, the page unreachable
\* included, costs no other module its check or its deliveries.
C9_FetchFailureIsolated ==
    outcome.lost = {}

\* C10: within a cycle the ledger grows by one url only after the delivery
\* of that descriptor has returned, and the documents are written at most
\* once, after every delivery has returned.
C10_Appends(c) == {p \in 1..Len(events[c]) : events[c][p].e = "append"}

C10_LedgerOrdering ==
    \A c \in Cycles :
        /\ saves[c] <= 1
        /\ pc[c] # "idle" =>
              /\ saves[c] = 0
              /\ events[c][1].e = "load"
              /\ TotalLinks(mon[c].sent_links)
                    = events[c][1].i + Cardinality(C10_Appends(c))
              /\ \A p \in C10_Appends(c) :
                    /\ p > 1
                    /\ events[c][p - 1] = [events[c][p] EXCEPT !.e = "ret"]
              /\ pc[c] = "record" =>
                    events[c][Len(events[c])].e = "ret"

\* C10, its case: a cycle has recorded one delivery and has another to make.
C10_Reached ==
    \E c \in Cycles :
        /\ pc[c] = "send"
        /\ C10_Appends(c) # {}
        /\ saves[c] = 0

\* C11: checking a module is idempotent.  On the same page, with the same
\* classifier responses and an unchanged ledger, a second check returns the
\* descriptors the first returned (those a cycle that has just started holds
\* included), and the check adds no url to any list of the ledger.
C11_Result(c, m) ==
    IF \E x \in 1..Len(todo[c]) : todo[c][x].id = m
    THEN todo[c][CHOOSE x \in 1..Len(todo[c]) : todo[c][x].id = m].files
    ELSE <<>>

C11_JustChecked(m) ==
    /\ outcome.cycle \in Cycles
    /\ outcome.login = "true"
    /\ ~outcome.raised
    /\ m \in outcome.shown

C11_IdempotentCheck ==
    \A m \in RegIds(modulesFile) :
        LET d == RegChat(modulesFile, m)
            got == GetPage(ModulePage, WelcomePage, WelcomePage, ModulePage)
            a == CheckModulePage(m, d, sentFile, got, page[m])
            b == CheckModulePage(m, d, a.sent_links, got, page[m])
        IN  /\ b.new_files = a.new_files
            /\ \A mm \in Modules, dd \in Dests :
                  /\ Links(a.sent_links, mm, dd.parts) = Links(sentFile, mm, dd.parts)
                  /\ Links(b.sent_links, mm, dd.parts) = Links(sentFile, mm, dd.parts)
            /\ C11_JustChecked(m) => C11_Result(outcome.cycle, m) = a.new_files

\* C11, its case: a cycle has just checked m1 against a ledger that already
\* holds a url of m1, and has returned a descriptor.
C11_Reached ==
    /\ C11_JustChecked("m1")
    /\ C11_Result(outcome.cycle, "m1") # <<>>
    /\ \E dd \in Dests : Links(sentFile, "m1", dd.parts) # <<>>

\* C12: a rate-limited send is waited out and retried.  Every further
\* invocation follows a RetryAfter; a delivery whose retried send the channel
\* accepts returns True; a delivery returns False only after an answer that
\* is an error, never after RetryAfter alone; and when the channel
\* rate-limits finitely often the delivery eventually returns.
C12_Safe ==
    job.pc \in {"call", "done"} =>
        /\ job.calls <= job.waits + 1
        /\ (job.pc = "call" /\ job.calls > 0) =>
              (Limited(job.file, job.env) > 0 /\ job.msgs = <<>>)
        /\ (job.pc = "done" /\ job.waits > 0 /\ Carried(job.msgs) > 0) =>
              job.ret = "true"
        /\ (job.pc = "done" /\ job.ret = "false") =>
              "error" \in {job.env.s1, job.env.s2}

C12_RateLimitRetry ==
    /\ []C12_Safe
    /\ (job.pc = "call") ~> (job.pc = "done")

\* C12, its case: the channel answered RetryAfter, the delivery was invoked
\* again and its send was accepted.
C12_Reached ==
    /\ job.pc = "done"
    /\ job.waits > 0
    /\ job.calls > 1
    /\ job.ret = "true"
    /\ Carried(job.msgs) = 1

\* C13: a delivery that fails leaves the cycle running.  When a send is
\* rejected for a reason other than rate-limiting, the delivery attempts at
\* most one further text message (the notice of the error), swallows its
\* failure and returns False without raising.  A download failure alone is
\* not a failed delivery: the link is sent as a text message in place of the
\* document, and the delivery returns True when the channel accepts it.  In
\* every case the cycle goes on to attempt every remaining descriptor.
C13_Rets(c) == {p \in 1..Len(events[c]) : events[c][p].e = "ret"}

C13_Before(c) ==
    {<<x, y>> \in (1..Len(todo[c])) \X (1..2) :
        /\ y <= Len(todo[c][x].files)
        /\ (x < pos[c].i \/ (x = pos[c].i /\ y < pos[c].j))}

C13_All(c) ==
    {<<x, y>> \in (1..Len(todo[c])) \X (1..2) : y <= Len(todo[c][x].files)}

C13_Delivery(r) ==
    /\ r.ret \in {"true", "false"}
    /\ r.ret = "false" =>
          /\ Carried(r.msgs) = 0
          /\ Len(r.msgs) <= 1
    /\ r.ret = "true" => (Len(r.msgs) = 1 /\ Carried(r.msgs) = 1)
    /\ r.dl = "fail" =>
          /\ \A x \in 1..Len(r.msgs) : r.msgs[x].kind # "document"
          /\ r.ret = "true" => r.msgs[1].kind = "link_text"

C13_FailureTolerated ==
    \A c \in Cycles :
        /\ pc[c] = "record" => C13_Delivery(res[c])
        /\ pc[c] = "send" => Cardinality(C13_Rets(c)) = Cardinality(C13_Before(c))
        /\ pc[c] = "record" =>
              Cardinality(C13_Rets(c)) = Cardinality(C13_Before(c)) + 1
        /\ pc[c] = "save" => Cardinality(C13_Rets(c)) = Cardinality(C13_All(c))

\* C13, its case: the first delivery of a cycle failed and the cycle is at
\* its second descriptor.
C13_Reached ==
    \E c \in Cycles :
        /\ pc[c] = "send"
        /\ pos[c] = [i |-> 1, j |-> 2]
        /\ ops = 1
        /\ unconfirmed # {}

\* C13 as first stated: a download failure makes the delivery return False.
C13_DownloadFailureFails ==
    \A c \in Cycles :
        (pc[c] = "record" /\ res[c].dl = "fail") => res[c].ret = "false"

\* C14: the direct type wins.  A node of either shape whose url answers
\* with the Content-Type of a pdf document is returned by the check as a
\* pdf descriptor, whatever the first anchor of the response shows.
C14_DirectTypeWins ==
    \A m \in Modules :
        C11_JustChecked(m) =>
            \A x \in 1..Len(page[m]) :
                LET n == page[m][x]
                    u == ExtractUrl(n)
                    d == RegChat(modulesFile, m)
                IN  (/\ ~Blank(u)
                     /\ n.resp.status = "ok"
                     /\ n.resp.ctype = "application/pdf"
                     /\ ~InSeq(Links(sentFile, m, d.parts), u))
                    => \E y \in 1..Len(C11_Result(outcome.cycle, m)) :
                          /\ C11_Result(outcome.cycle, m)[y].url = AddScheme(u)
                          /\ C11_Result(outcome.cycle, m)[y].type = "pdf"

\* C15: a download succeeds only on a successful, non-empty final response.
\* Whenever the response whose bytes are written (the response of the extra
\* hop of a view.php page included) has a status other than 200 or no
\* content, download_file returns None and leaves nothing on disk; it
\* returns a path only for status 200 with content.
C15_Downloaded ==
    /\ job.calls > 0
    /\ job.file.type \in {"drive", "pdf"}
    /\ job.dl.gets > 0

C15_Final ==
    IF /\ (Contains(job.file.final_url, "url/view.php")
             \/ Contains(job.file.final_url, "resource/view.php"))
       /\ job.d1.status = "200"
       /\ job.d1.anchor
    THEN job.d2 ELSE job.d1

C15_DownloadChecked ==
    C15_Downloaded =>
        /\ (C15_Final.status # "200" \/ C15_Final.bytes = "none") =>
              (job.dl.ret = "none" /\ job.dl.disk = "none")
        /\ job.dl.ret = "path" =>
              (C15_Final.status = "200" /\ C15_Final.bytes = "some")

\* C16: once the delivery of a pdf or drive descriptor has returned, True or
\* False, nothing downloaded for it remains on disk.
C16_ArtifactRemoved ==
    (job.pc = "done" /\ job.file.type \in {"drive", "pdf"}) => job.disk = "none"

\* C17: loading a document from a file that is missing, zero-byte or
\* malformed never raises and gives the empty structure, whatever was
\* registered, delivered or loaded before in the same process.
C17_Unreadable == {"missing", "empty", "malformed"}

C17_EmptyDefault ==
    /\ store.last.op = "load" =>
          /\ ~store.last.raised
          /\ store.last.from[1] \in C17_Unreadable => store.last.modules = <<>>
          /\ store.last.from[2] \in C17_Unreadable => store.last.links = NoDict
    /\ store.last.op = "cookies" =>
          /\ ~store.last.raised
          /\ store.last.from[1] \in C17_Unreadable => store.last.cookies = <<>>

\* C18: a failed write of a document is logged and goes no further: the
\* registration, or the login, that asked for the write ends with its normal
\* result.
C18_WriteFailureContained ==
    (store.last.op \in {"register", "login"} /\ store.last.w # "ok") =>
        (~store.last.raised /\ store.last.ret = "true")

\* C19: every /check ends with a word to the administrator.  A check that
\* ends where it starts (login rejected, login or a page unreachable,
\* nothing new) is answered at once with a failure or the completion; a
\* check that has descriptors to deliver is eventually answered with the
\* completion, whatever its deliveries return.
C19_Terminal == {"login_failed", "error", "completed"}

C19_Answered ==
    outcome.cycle = "manual" =>
        IF pc["manual"] = "idle"
        THEN outcome.manual \in C19_Terminal
        ELSE outcome.manual = "pending"

C20_Others(reg, m) ==
    LET Other(e) == e.id # m IN SelectSeq(reg, Other)

C20_Step ==
    LET r == outcome'.removed
        registered == \E i \in 1..Len(modulesFile) : modulesFile[i].id = r.id
    IN  r.said # "none" =>
            IF registered
            THEN /\ modulesFile' = C20_Others(modulesFile, r.id)
                 /\ r.action = "keep" =>
                       /\ sentFile' = sentFile
                       /\ r.said = "history_kept"
                 /\ r.action = "delete" =>
                       /\ DOMAIN sentFile' = DOMAIN sentFile \ {r.id}
                       /\ \A x \in DOMAIN sentFile' : sentFile'[x] = sentFile[x]
                       /\ r.said \in {"history_removed", "no_history"}
            ELSE /\ modulesFile' = modulesFile
                 /\ sentFile' = sentFile
                 /\ r.said = "failed"

C20_RemovalFrame == [][C20_Step]_vars

\* C20, its case: the history of m1 has been removed with m1 while m2 stays
\* registered with its own ledger entry.
C20_Reached ==
    /\ outcome.removed = [id |-> "m1", action |-> "delete",
                          said |-> "history_removed"]
    /\ \E i \in 1..Len(modulesFile) : modulesFile[i].id = "m2"
    /\ "m2" \in DOMAIN sentFile
    /\ "m1" \notin DOMAIN sentFile

\* C21: the id kept for a registration is the value of the url's id
\* parameter when the url has one, and otherwise a time-based id; and of
\* two confirmed registrations of different urls that have no id parameter
\* neither has overwritten the other in the registry.
C21_Param(url) ==
    {i \in 1..Len(url.query) :
        url.parses /\ url.query[i][1] = "id" /\ url.query[i][2] # ""}

C21_Stored(url) == \E i \in 1..Len(form.modules) : form.modules[i].url = url

C21_ModuleIdentity ==
    /\ \A data \in {form.pending[i] : i \in 1..Len(form.pending)} :
          LET has == C21_Param(data.url)
          IN  IF has # {}
              THEN data.id = <<data.url.query[CHOOSE i \in has :
                                   \A j \in has : i <= j][2]>>
              ELSE data.id[1] = "module"
    /\ \A i, j \in 1..Len(form.confirmed) :
          LET u == form.confirmed[i]
              v == form.confirmed[j]
          IN  (u # v /\ C21_Param(u) = {} /\ C21_Param(v) = {}) =>
                  (C21_Stored(u) /\ C21_Stored(v))

\* C22: a login whose submission was answered returns True exactly when the
\* answer holds neither failure marker; a login that returned True has
\* written the session's cookies to the cookie document, and any other
\* login has left the document as it found it.
C22_Done == call.op = "login" /\ call.kind # "pending"

RECURSIVE C23_Subseq(_, _)
C23_Subseq(a, b) ==
    IF a = <<>> THEN TRUE
    ELSE IF b = <<>> THEN FALSE
    ELSE IF Head(a) = Head(b) THEN C23_Subseq(Tail(a), Tail(b))
    ELSE C23_Subseq(a, Tail(b))

C23_PageOrder ==
    visit.pc = "checked" =>
        C23_Subseq([i \in 1..Len(visit.files) |-> visit.files[i].name],
                   [i \in 1..Len(visit.nodes) |-> visit.nodes[i].name])

\* C24: the url of every descriptor a scan returns (the value the ledger
\* will hold) is the url extracted from its node (the value the scan looks
\* up in the ledger), urls without a scheme included.
C24_SourceUrl ==
    visit.pc = "checked" =>
        \A i \in 1..Len(visit.files) :
            \E j \in 1..Len(visit.nodes) :
                /\ visit.nodes[j].name = visit.files[i].name
                /\ visit.files[i].url =
                      (IF Blank(visit.nodes[j].href)
                       THEN visit.nodes[j].onclick ELSE visit.nodes[j].href)

\* C25: a scan calls the classifier, once, for exactly the nodes that have
\* a url which the ledger list of the module and destination does not
\* hold; a node without url and a node whose url the list holds get no
\* call; and a call that failed does not keep the nodes after it from
\* being classified and returned.
C25_Url(n) == IF Blank(n.href) THEN n.onclick ELSE n.href

C25_Candidates ==
    {i \in 1..Len(visit.nodes) :
        /\ ~Blank(C25_Url(visit.nodes[i]))
        /\ \A k \in 1..Len(visit.sent) : visit.sent[k] # C25_Url(visit.nodes[i])}

C25_CandidateFiltering ==
    visit.pc = "checked" =>
        /\ {visit.asked[k] : k \in 1..Len(visit.asked)} = C25_Candidates
        /\ Len(visit.asked) = Cardinality(C25_Candidates)
        /\ \A i \in C25_Candidates :
              visit.nodes[i].resp.ctype = "application/pdf" =>
                  \E k \in 1..Len(visit.files) :
                      visit.files[k].name = visit.nodes[i].name

\* C25, its case: the request for the first node raised, and the second
\* node was still classified and returned.
C25_Reached ==
    /\ visit.pc = "checked"
    /\ visit.nodes = <<NDown, NPdf>>
    /\ visit.sent = <<>>
    /\ visit.asked = <<1, 2>>
    /\ Len(visit.files) = 1
    /\ visit.files[1].name = "a"

\* C26: a node, of either shape, whose response is HTML and not a document
\* itself is classified by the target of the response's anchor: a Drive
\* target gives a drive descriptor, else a target ending in .pdf a pdf
\* descriptor, else a YouTube target a youtube descriptor, else the node
\* gives no descriptor.
C26_Tier(resp) ==
    IF ~resp.anchor.found \/ Blank(resp.anchor.href) THEN "none"
    ELSE IF Contains(resp.anchor.href, "drive.google.com") THEN "drive"
    ELSE IF EndsWithPdf(resp.anchor.href) THEN "pdf"
    ELSE IF Contains(resp.anchor.href, "youtube.com")
            \/ Contains(resp.anchor.href, "youtu.be") THEN "youtube"
    ELSE "none"

C26_RedirectTier ==
    visit.pc = "checked" =>
        \A k \in 1..Len(visit.asked) :
            LET n == visit.nodes[visit.asked[k]]
                got == {visit.files[x].type : x \in
                          {y \in 1..Len(visit.files) :
                              visit.files[y].name = n.name}}
            IN  (/\ n.resp.status = "ok"
                 /\ n.resp.ctype = "text/html"
                 /\ ~EndsWithPdf(n.resp.url)) =>
                    got = (IF C26_Tier(n.resp) = "none" THEN {}
                           ELSE {C26_Tier(n.resp)})

\* C27: a call for a video descriptor downloads nothing and, when it
\* returns True, has sent the one text with the link.  A call for a pdf or
\* drive descriptor whose download gave a non-empty file sends no link
\* text and, when it returns True, has sent the file as one document; a call
\* whose download failed sends no document and, when it returns True, has
\* sent the one text with the link.
C27_Kinds == {job.msgs[i].kind : i \in 1..Len(job.msgs)}

C27_Only(kind) == Len(job.msgs) = 1 /\ job.msgs[1].kind = kind

C27_TypeSpecific ==
    job.pc = "done" =>
        /\ job.file.type = "youtube" =>
              /\ job.dl.gets = 0 /\ ~job.dl.opened
              /\ C27_Kinds \subseteq {"video_text", "error_notice"}
              /\ job.ret = "true" => C27_Only("video_text")
        /\ (job.file.type \in {"pdf", "drive"} /\ job.dl.ret = "path") =>
              /\ C27_Kinds \subseteq {"document", "error_notice"}
              /\ job.ret = "true" => C27_Only("document")
        /\ (job.file.type \in {"pdf", "drive"} /\ job.dl.ret # "path") =>
              /\ C27_Kinds \subseteq {"link_text", "error_notice"}
              /\ job.ret = "true" => C27_Only("link_text")

\* C27, its case: the download of a drive descriptor failed after a request
\* was made, and the text with the link was sent in place of the file.
C27_Reached ==
    /\ job.pc = "done"
    /\ job.file = FDrive
    /\ job.dl.gets > 0
    /\ job.dl.ret = "none"
    /\ job.ret = "true"
    /\ C27_Only("link_text")

\* C28: every send a call attempts for a destination "channel_thread", the
\* notice sent after an exception included, is addressed to that channel
\* and that thread; every send for a plain channel is addressed to the
\* channel, with no thread.
C28_Targeted ==
    \A i \in 1..Len(job.addressed) :
        /\ job.addressed[i].chat = <<job.chat_id.parts[1]>>
        /\ job.addressed[i].thread =
              (IF Len(job.chat_id.parts) = 2 THEN job.chat_id.parts[2] ELSE 0)

\* C29: a cycle delivers one descriptor at a time, module after module and
\* descriptor after descriptor in the order found, and between the return
\* of one delivery and the return of the next the cycle has slept.
C29_At(c, kind) == {p \in 1..Len(events[c]) : events[c][p].e = kind}

C29_Throttled ==
    \A c \in Cycles :
        /\ Cardinality(C29_At(c, "ret")) <= Cardinality(C29_At(c, "sleep")) + 1
        /\ \A p, q \in C29_At(c, "ret") :
              p < q =>
                /\ \/ events[c][p].i < events[c][q].i
                   \/ /\ events[c][p].i = events[c][q].i
                      /\ events[c][p].j < events[c][q].j
                /\ \E d \in C29_At(c, "sleep") :
                      /\ p < d /\ d < q
                      /\ events[c][d].i = events[c][p].i
                      /\ events[c][d].j = events[c][p].j

\* C29, its case: a cycle has delivered two descriptors of one module, both
\* accepted by the channel, and is about to record the second.
C29_Reached ==
    /\ pc["manual"] = "record"
    /\ pos["manual"] = [i |-> 1, j |-> 2]
    /\ res["manual"].ret = "true"
    /\ Cardinality(C29_At("manual", "sleep")) = 1
    /\ \A k \in DOMAIN sends : sends[k] = 2

\* C30: the save at the end of a cycle loses nothing that was written while
\* the cycle ran: it leaves the registry document as it finds it (a module
\* registered meanwhile stays registered, a module removed meanwhile stays
\* removed), and every url the ledger document holds before the save it
\* holds after it.
C30_Saved == \E c \in Cycles : saves'[c] = saves[c] + 1

C30_Kept ==
    \A m \in DOMAIN sentFile :
        \A k \in DOMAIN sentFile[m] :
            \A x \in 1..Len(sentFile[m][k]) :
                /\ m \in DOMAIN sentFile'
                /\ k \in DOMAIN sentFile'[m]
                /\ \E y \in 1..Len(sentFile'[m][k]) :
                      sentFile'[m][k][y] = sentFile[m][k][x]

C32_Lists(sl) == UNION {{<<m, k>> : k \in DOMAIN sl[m]} : m \in DOMAIN sl}

C32_Step ==
    LET a == outcome'.added
        own == <<a.id, a.chat_id.parts>>
    IN  a.id # "none" =>
            /\ C32_Lists(sentFile') = C32_Lists(sentFile) \cup {own}
            /\ \A t \in C32_Lists(sentFile) :
                  sentFile'[t[1]][t[2]] = sentFile[t[1]][t[2]]
            /\ own \notin C32_Lists(sentFile) => sentFile'[own[1]][own[2]] = <<>>

C34_Fields ==
    (call.op = "login" /\ Count(call.trace, "post_login") > 0) =>
        /\ \A i \in DOMAIN call.hidden :
              call.hidden[i].name # "" =>
                  /\ call.hidden[i].name \in DOMAIN call.data
                  /\ call.data[call.hidden[i].name] = call.hidden[i].value
        /\ "username" \in DOMAIN call.data /\ call.data["username"] = "user"
        /\ "password" \in DOMAIN call.data /\ call.data["password"] = "pass"

\* C35: for a url of the drive host the first and only request goes to the
\* direct-download url of the identifier the url carries, after /file/d/
\* or else as the value of its id parameter, and never to the url itself;
\* a url that carries no identifier is answered None with no request made.
C35_Id(u) ==
    IF Contains(u, "/file/d/") THEN <<After(u, "/file/d/")>>
    ELSE IF Contains(u, "id=") THEN <<After(u, "id=")>>
    ELSE <<>>

C35_DirectOnly ==
    (job.pc # "none" /\ job.calls > 0 /\ job.file.type = "drive") =>
        LET u == job.file.final_url
        IN  IF C35_Id(u) = <<>>
            THEN job.dl.ret = "none" /\ job.dl.gets = 0 /\ job.dl.first = NoRequest
            ELSE /\ job.dl.first =
                      <<"https://", "drive.google.com", "/uc?export=download&id=">>
                      \o C35_Id(u)
                 /\ job.dl.first # u
                 /\ job.dl.gets = 1

\* C31: the registry and the ledger change only in a step the
\* administrator has taken: no command and no button of another user adds
\* a module, removes one or deletes the history of one.
C31_Step ==
    (form'.modules # form.modules \/ form'.links # form.links) =>
        form'.by = "admin"

C31_AdminOnly == [][C31_Step]_vars

\* C33: in the conversation of /addmodule the registry and the ledger
\* change in the step Confirm and in no other; an input that is no chat id
\* leaves the conversation in the selection of the chat; and after Confirm
\* and after a cancellation, by the button or by /cancel, the data of the
\* pending registration are gone and the conversation has ended.
C33_Talk == {"where", "correct?", "enter", "invalid", "cancelled", "ended", "raised"}

C33_Step ==
    /\ form'.said \in C33_Talk =>
            form'.modules = form.modules /\ form'.links = form.links
    /\ form'.said = "invalid" => form'.state = "selecting"
    /\ form'.said \in {"added", "cancelled", "ended", "raised"} =>
            form'.pending = <<>> /\ form'.state = "end"

C33_Conversation == [][form' # form => C33_Step]_vars

====
